---------------------------- MODULE Spec2Model ----------------------------
(***************************************************************************)
(* A state-machine model of the "Drugstore in Macon" text adventure:       *)
(* the world entities (gameRenderer.py), the scenario (gameSetup.py), the  *)
(* events (gameEvents.py), the action layer (actions.py), the save/undo    *)
(* layer (saveLoad.py), the turn pipeline (InputProcessor.get_story) and   *)
(* the round scheduler (turnHandler.py).                                   *)
(*                                                                         *)
(* The scenario is scaled down to five of the twelve characters and seven  *)
(* of the items; every operation on them is translated from the source.    *)
(* Python lists are sequences, Python dicts are functions, None is the     *)
(* string "None".  Characters and areas are identified by their names,     *)
(* items by their uid (two items share the name "Hands").                  *)
(***************************************************************************)
EXTENDS Integers, Sequences, FiniteSets, TLC

None == "None"

(***************************************************************************)
(* Generic list helpers (Python list semantics).                           *)
(***************************************************************************)
InSeq(x, s) == \E i \in 1..Len(s) : s[i] = x

Range(s) == {s[i] : i \in 1..Len(s)}

IndexOf(x, s) == IF InSeq(x, s) THEN CHOOSE i \in 1..Len(s) : s[i] = x /\ \A j \in 1..(i-1) : s[j] # x
                 ELSE 0

\* The first element of a list, or a default when the list is empty.
FirstOr(s, default) == IF s = <<>> THEN default ELSE s[1]

\* The last element of a list, or a default when the list is empty.
LastOr(s, default) == IF s = <<>> THEN default ELSE s[Len(s)]

\* The list without its k-th element; k = 0 leaves it alone.
RemoveAt(s, k) ==
    IF k = 0 THEN s
    ELSE [i \in 1..(Len(s) - 1) |-> IF i < k THEN s[i] ELSE s[i + 1]]

\* list.remove(x) guarded by "x in list": drops the first occurrence only.
Remove(s, x) == RemoveAt(s, IndexOf(x, s))

(***************************************************************************)
(* The scenario: areas, links, characters, items (gameSetup.py).           *)
(***************************************************************************)
main_store == "Main Store"
front_entrance == "Front Entrance"
storage_room == "Storage Room"
pharmacy == "Pharmacy"

\* World.sub_areas in add_sub_area order.
sub_areas == <<main_store, front_entrance, storage_room, pharmacy>>

Areas == Range(sub_areas)

\* SubArea.linking_points, in add_linking_point order, as the linked areas.
get_linked_areas(a) ==
    CASE a = main_store -> <<front_entrance, storage_room>>
      [] a = front_entrance -> <<main_store>>
      [] a = storage_room -> <<main_store, pharmacy>>
      [] a = pharmacy -> <<storage_room>>

player == "Lee Everett"
kenny == "Kenny"
carley == "Carley"
larry == "Larry"
zombie3 == "Female Zombie"

\* The cast, in the order the scenario lists it in main_store.characters
\* (the player last), then the zombie of the Storage Room.
Cast == <<kenny, carley, larry, player, zombie3>>

Chars == Range(Cast)

flashlight == "Item_Flashlight"
fire_axe == "Item_FireAxe"
first_aid_kit == "Item_FirstAidKit"
handgun == "Item_Handgun"
hands_kenny == "Hands_Kenny"
hands_larry == "Hands_Larry"
bite == "Item_Bite_Char_Zombie3"

Items == {flashlight, fire_axe, first_aid_kit, handgun, hands_kenny, hands_larry, bite}

\* Item.name: the key of every saved document.
ItemName(it) ==
    CASE it = flashlight -> "Flashlight"
      [] it = fire_axe -> "Fire Axe"
      [] it = first_aid_kit -> "First Aid Kit"
      [] it = handgun -> "Handgun"
      [] it = hands_kenny -> "Hands"
      [] it = hands_larry -> "Hands"
      [] it = bite -> "Bite"

ItemNames == {ItemName(it) : it \in Items}

\* Item.damage
ItemDamage(it) ==
    CASE it = flashlight -> 3
      [] it = fire_axe -> 40
      [] it = first_aid_kit -> 0
      [] it = handgun -> 70
      [] it = hands_kenny -> 5
      [] it = hands_larry -> 5
      [] it = bite -> 10

\* Item.robustness
ItemRobustness(it) ==
    CASE it = flashlight -> 50
      [] it = fire_axe -> 80
      [] it = first_aid_kit -> 0
      [] it = handgun -> 80
      [] it = hands_kenny -> 100
      [] it = hands_larry -> 100
      [] it = bite -> 50

\* The "Medicate" ability is granted to the First Aid Kit only.
HasMedicate(it) == it = first_aid_kit

Strength(c) ==
    CASE c = player -> 6 [] c = kenny -> 6 [] c = carley -> 5 [] c = larry -> 7 [] c = zombie3 -> 6

Skill(c) ==
    CASE c = player -> 6 [] c = kenny -> 6 [] c = carley -> 7 [] c = larry -> 5 [] c = zombie3 -> 2

Speed(c) ==
    CASE c = player -> 5 [] c = kenny -> 6 [] c = carley -> 6 [] c = larry -> 4 [] c = zombie3 -> 1

Controllable(c) == c = player

\* create_zombie sets hostile = True and state = 'attack'; nobody else has either.
HostileFlag(c) == c = zombie3

Slots == {"head", "torso", "legs", "left_hand", "right_hand", "extra"}

DefaultFriendship == 5

InitialFriendships ==
    [c \in Chars |-> [d \in Chars |->
        CASE c = player /\ d = player -> 9
          [] c = player /\ d = kenny -> 6
          [] c = player /\ d = carley -> 5
          [] c = player /\ d = larry -> 3
          [] c = kenny /\ d = player -> 7
          [] c = kenny /\ d = carley -> 5
          [] c = kenny /\ d = larry -> 3
          [] c = carley /\ d = player -> 6
          [] c = carley /\ d = kenny -> 5
          [] c = carley /\ d = larry -> 3
          [] c = larry /\ d = player -> 2
          [] c = larry /\ d = kenny -> 3
          [] c = larry /\ d = carley -> 3
          [] c # zombie3 /\ d = zombie3 -> 0
          [] c = zombie3 /\ d # zombie3 -> 0
          [] OTHER -> DefaultFriendship]]

(***************************************************************************)
(* A world value: one record holding every mutable field of the entities,  *)
(* the event registry and the TurnHandler's queue.  The operators below    *)
(* take a world and return the world after the method has run.             *)
(***************************************************************************)
NoEquipment == [s \in Slots |-> None]

\* dict iteration order of Character.equipment
SlotOrder == <<"head", "torso", "legs", "left_hand", "right_hand", "extra">>

HandSlots == {"left_hand", "right_hand"}

\* Character._slot_of
slot_of(w, c, item) ==
    FirstOr(SelectSeq(SlotOrder, LAMBDA s : w.equipment[c][s] = item), None)

\* Character._set_weapon_from_hands
set_weapon_from_hands(w, c) ==
    LET rh == w.equipment[c]["right_hand"]
        lh == w.equipment[c]["left_hand"]
        best == IF rh # None /\ lh # None
                THEN (IF ItemDamage(rh) >= ItemDamage(lh) THEN rh ELSE lh)
                ELSE (IF rh # None THEN rh ELSE lh)
    IN  [w EXCEPT !.weapon[c] = best]

\* Character.unequip_slot
unequip_slot(w, c, slot) ==
    LET it == w.equipment[c][slot]
        w1 == [w EXCEPT !.equipment[c][slot] = None, !.is_equipped[it] = FALSE,
                        !.known_by[it] = @ \cup {c}]
    IN  IF it = None THEN w
        ELSE IF slot \in HandSlots THEN set_weapon_from_hands(w1, c) ELSE w1

\* Character.unequip
unequip(w, c, item) ==
    LET slot == slot_of(w, c, item)
    IN  IF slot = None THEN w ELSE unequip_slot(w, c, slot)

\* The slot Character.equip selects when none is given (hand_preference
\* "right"), together with the world after the replace-occupant unequip.
AutoSlot(w, c, item) ==
    LET eq == w.equipment[c]
    IN  IF ItemDamage(item) > 0
        THEN (IF eq["right_hand"] = None THEN [slot |-> "right_hand", w |-> w]
              ELSE IF eq["left_hand"] = None THEN [slot |-> "left_hand", w |-> w]
              ELSE [slot |-> "right_hand", w |-> unequip_slot(w, c, "right_hand")])
        ELSE (IF eq["extra"] = None THEN [slot |-> "extra", w |-> w]
              ELSE IF eq["torso"] = None THEN [slot |-> "torso", w |-> w]
              ELSE IF eq["head"] = None THEN [slot |-> "head", w |-> w]
              ELSE IF eq["legs"] = None THEN [slot |-> "legs", w |-> w]
              ELSE [slot |-> "extra", w |-> unequip_slot(w, c, "extra")])

\* Character.equip(item, slot); slot = None selects automatically.
equip(w, c, item, slot) ==
    LET \* the item is placed in slot s of w2
        place(w2, s) ==
            IF s \in HandSlots
            THEN set_weapon_from_hands(
                     [w2 EXCEPT !.equipment[c][s] = item, !.is_equipped[item] = TRUE,
                                !.known_by[item] = @ \cup {c}], c)
            ELSE [w2 EXCEPT !.equipment[c][s] = item, !.is_equipped[item] = TRUE,
                            !.known_by[item] = @ \cup {c}]
        \* the slot the item was in before is emptied
        leave(w1, s, prev_slot) ==
            place(IF prev_slot # None /\ prev_slot # s
                  THEN unequip_slot(w1, c, prev_slot) ELSE w1, s)
        \* another occupant of the selected slot is unequipped
        clear(sel, prev_slot) ==
            leave(IF sel.w.equipment[c][sel.slot] # None /\ sel.w.equipment[c][sel.slot] # item
                  THEN unequip_slot(sel.w, c, sel.slot) ELSE sel.w,
                  sel.slot, prev_slot)
    IN  IF ~InSeq(item, w.inventory[c]) THEN w
        ELSE clear(IF slot = None THEN AutoSlot(w, c, item) ELSE [slot |-> slot, w |-> w],
                   slot_of(w, c, item))

\* Character.add_item
add_item(w, c, item) ==
    LET w1 == [w EXCEPT !.inventory[c] = Append(@, item),
                        !.holder[item] = c,
                        !.position[item] = None,
                        !.known_by[item] = @ \cup {c}]
    IN  IF ItemDamage(item) > 0 /\ w1.equipment[c]["right_hand"] = None
                                /\ w1.equipment[c]["left_hand"] = None
        THEN equip(w1, c, item, "right_hand")
        ELSE w1

\* Character.remove_item
remove_item(w, c, item) ==
    IF ~InSeq(item, w.inventory[c]) THEN w
    ELSE
    LET w1 == unequip(w, c, item)
        w2 == [w1 EXCEPT !.inventory[c] = Remove(@, item), !.holder[item] = None,
                         !.known_by[item] = @ \cup {c}]
    IN  IF w2.weapon[c] = item THEN [w2 EXCEPT !.weapon[c] = None] ELSE w2

\* The party loop of Character.move_to: every member is dragged along.
RECURSIVE MoveParty(_, _, _, _)
MoveParty(w, members, i, target_area) ==
    IF i > Len(members) THEN w
    ELSE
    LET member == members[i]
        w1 == [w EXCEPT !.characters[w.current_area[member]] = Remove(@, member)]
        w2 == [w1 EXCEPT !.current_area[member] = target_area,
                         !.characters[target_area] = Append(@, member)]
    IN  MoveParty(w2, members, i + 1, target_area)

\* A move that leaves the mover listed in the area it came from.
move_to_keep_listed(w, self, target_area) ==
    [w EXCEPT !.current_area[self] = target_area,
              !.characters[target_area] = Append(@, self)]

\* Character.move_to
move_to(w, self, target_area) ==
    LET w1 == [w EXCEPT !.characters[w.current_area[self]] = Remove(@, self)]
        w2 == [w1 EXCEPT !.current_area[self] = target_area,
                         !.characters[target_area] = Append(@, self)]
    IN  MoveParty(w2, w2.party[self], 1, target_area)

\* Character.add_party_member (reciprocal)
add_party_member(w, self, character) ==
    IF InSeq(character, w.party[self]) \/ character = self THEN w
    ELSE
    LET w1 == [w EXCEPT !.party[self] = Append(@, character)]
    IN  IF InSeq(self, w1.party[character]) THEN w1
        ELSE [w1 EXCEPT !.party[character] = Append(@, self)]

\* Character.remove_party_member (reciprocal)
remove_party_member(w, self, character) ==
    IF ~InSeq(character, w.party[self]) THEN w
    ELSE
    LET w1 == [w EXCEPT !.party[self] = Remove(@, character)]
    IN  [w1 EXCEPT !.party[character] = Remove(@, self)]

MaxHealth == 100

\* Character.update_health: heal / apply_damage followed by _clamp_health.
\* A dead character neither heals nor takes damage.
update_health(w, c, amount) ==
    IF ~w.is_alive[c] THEN w
    ELSE
    LET h == w.health[c] + amount
        clamped == IF h > MaxHealth THEN MaxHealth ELSE IF h <= 0 THEN 0 ELSE h
    IN  [w EXCEPT !.health[c] = clamped,
                  !.is_alive[c] = IF h <= 0 THEN FALSE ELSE @]

\* Character.friendship_with
friendship_with(w, c, d) == w.friendships[c][d]

MaxFriendship == 10

\* An update that floors and caps but does not leave 0 alone.
update_friendship_unguarded(w, c, d, amount) ==
    [w EXCEPT !.friendships[c][d] =
        IF @ + amount <= 1 THEN 1
        ELSE IF @ + amount > MaxFriendship THEN MaxFriendship ELSE @ + amount]

\* Character.update_friendship_with: 0 is immutable, any other value is
\* floored at 1 and capped at 10.
update_friendship_with(w, c, d, amount) ==
    LET current_level == w.friendships[c][d]
        raised == current_level + amount
        new_level == IF raised <= 1 THEN 1 ELSE raised
        stored == IF new_level > MaxFriendship THEN MaxFriendship ELSE new_level
    IN  IF current_level = 0 THEN w
        ELSE [w EXCEPT !.friendships[c][d] = stored]

(***************************************************************************)
(* Events (gameEvents.py).  w.events is the heap of event objects, an      *)
(* event's id is its index; w.active_events is EventManager.active_events  *)
(* and w.area_events[a] is SubArea.active_events, both lists of ids.       *)
(* FightEvent.participants is only ever tested for membership and size, so *)
(* it is kept as a set.                                                    *)
(***************************************************************************)
BlockadeDescription == "The door to the pharmacy is barricaded."

ResolvedDescription == "A busted open door."

RequiredItem == "Fire Axe"

\* BlockadeEvent.blocked_pairs as built by EventManager.initialize_events
BlockedPairs == {<<storage_room, pharmacy>>, <<pharmacy, storage_room>>}

\* BlockadeEvent.__init__: anchored in linking_point.area_a
NewBlockade ==
    [kind |-> "Blockade", location |-> storage_room, participants |-> {},
     is_active |-> TRUE, is_resolved |-> FALSE, is_blocking |-> TRUE,
     description |-> BlockadeDescription]

\* FightEvent.__init__
NewFight(location, participants) ==
    [kind |-> "Fight", location |-> location, participants |-> participants,
     is_active |-> TRUE, is_resolved |-> FALSE, is_blocking |-> FALSE,
     description |-> "A fight has broken out."]

\* Concatenation without duplicates, first occurrence kept (the id-based
\* de-duplication of _collect_blockades and _iter_events).
RECURSIVE Dedup(_, _)
Dedup(s, seen) ==
    IF s = <<>> THEN <<>>
    ELSE IF Head(s) \in seen THEN Dedup(Tail(s), seen)
    ELSE <<Head(s)>> \o Dedup(Tail(s), seen \cup {Head(s)})

\* A blockade that lets every move through.
is_move_allowed_open(ev, current_area, destination_area) == TRUE

\* BlockadeEvent.is_move_allowed
is_move_allowed(ev, current_area, destination_area) ==
    IF ~ev.is_active \/ ev.is_resolved THEN TRUE
    ELSE <<current_area, destination_area>> \notin BlockedPairs

\* EventManager.validate_movement: the blocking reason, or None.
validate_movement(w, current_area, destination_area) ==
    LET pools == w.active_events \o w.area_events[current_area] \o w.area_events[destination_area]
        blockades == SelectSeq(Dedup(pools, {}),
                       LAMBDA e : /\ w.events[e].kind = "Blockade"
                                  /\ w.events[e].is_active
                                  /\ ~w.events[e].is_resolved
                                  /\ w.events[e].is_blocking)
        reason(stopping) ==
            IF stopping = <<>> THEN None ELSE w.events[stopping[1]].description
    IN  reason(SelectSeq(blockades,
                  LAMBDA e : ~is_move_allowed(w.events[e], current_area, destination_area)))

\* Event.resolve, as inherited by FightEvent.resolve: the manager's list is
\* left alone.
FightResolve(w, e) ==
    [w EXCEPT !.events[e].is_active = FALSE,
              !.area_events[w.events[e].location] = Remove(@, e)]

\* FightEvent.resolve_if_needed: the world after, and whether it resolved.
resolve_if_needed(w, e) ==
    LET alive_participants == {p \in w.events[e].participants : w.is_alive[p]}
        w1 == [w EXCEPT !.events[e].participants = alive_participants]
        areas == {w1.current_area[p] : p \in alive_participants}
    IN  IF Cardinality(alive_participants) < 2 \/ Cardinality(areas) > 1
        THEN [w |-> FightResolve(w1, e), resolved |-> TRUE]
        ELSE [w |-> w1, resolved |-> FALSE]

\* One resolution pass of check_for_event_triggers_after_action over a list
\* of fights fixed before the pass.
RECURSIVE ResolvePass(_, _)
ResolvePass(w, fights) ==
    IF fights = <<>> THEN w
    ELSE
    LET e == Head(fights)
        unlist(r) ==
            IF r.resolved /\ ~r.w.events[e].is_active /\ InSeq(e, r.w.active_events)
            THEN [r.w EXCEPT !.active_events = Remove(@, e)]
            ELSE r.w
    IN  ResolvePass(unlist(resolve_if_needed(w, e)), Tail(fights))

\* The fight the area has among the manager's events, or <<>>.
ActiveFightsIn(w, area) ==
    SelectSeq(w.active_events,
              LAMBDA e : /\ w.events[e].kind = "Fight"
                         /\ w.events[e].is_active
                         /\ w.events[e].location = area)

\* Appending a new event to the heap, the manager and the area.
SpawnFight(w, area, participants) ==
    LET e == Len(w.events) + 1
    IN  [w EXCEPT !.events = Append(@, NewFight(area, participants)),
                  !.active_events = Append(@, e),
                  !.area_events[area] = Append(@, e)]

\* EventManager.check_for_event_triggers_after_action
check_for_event_triggers_after_action(w, character) ==
    LET fights_to_check == SelectSeq(w.active_events,
                              LAMBDA e : /\ w.events[e].kind = "Fight"
                                         /\ w.events[e].is_active
                                         /\ character \in w.events[e].participants)
        \* a fight starts when the area has none and holds a hostile NPC
        start(w2, area, hostile_npcs, participants) ==
            IF ActiveFightsIn(w2, area) # <<>> THEN w2
            ELSE IF hostile_npcs = {} THEN w2
            ELSE IF Cardinality(participants) < 2 THEN w2
            ELSE SpawnFight(w2, area, participants)
        gather(w2, area, hostile_npcs) ==
            start(w2, area, hostile_npcs,
                  {p \in hostile_npcs \cup (IF w2.is_alive[character] THEN {character} ELSE {}) :
                      w2.is_alive[p]})
        scout(w2, area) ==
            gather(w2, area, {c \in Range(w2.characters[area]) :
                                 /\ ~Controllable(c)
                                 /\ w2.is_alive[c]
                                 /\ friendship_with(w2, c, character) <= 1})
        \* the fights of the character's area are checked
        in_area(w1, area) == scout(ResolvePass(w1, ActiveFightsIn(w1, area)), area)
        own(w1) == in_area(w1, w1.current_area[character])
    IN  own(ResolvePass(w, fights_to_check))

\* BlockadeEvent.resolve
BlockadeResolve(w, e) ==
    IF w.events[e].is_resolved THEN w
    ELSE [w EXCEPT !.events[e].is_resolved = TRUE,
                   !.events[e].is_blocking = FALSE,
                   !.events[e].is_active = FALSE,
                   !.events[e].description = ResolvedDescription,
                   !.area_events[storage_room] = Remove(@, e),
                   !.area_events[pharmacy] = Remove(@, e),
                   !.active_events = Remove(@, e)]

BreakThreshold == 20

\* A blockade that yields to the required item whoever holds it.
handle_use_unheld(w, e, item, character) ==
    IF ItemName(item) # RequiredItem THEN [w |-> w, msg |-> TRUE]
    ELSE [w |-> BlockadeResolve(w, e), msg |-> TRUE]

\* BlockadeEvent.handle_action("use_item", [item name], character): the
\* world after, and whether a message came back.
BlockadeHandleUse(w, e, item, character) ==
    LET held == SelectSeq(w.inventory[character], LAMBDA it : ItemName(it) = RequiredItem)
        w1 == BlockadeResolve(w, e)
    IN  IF ItemName(item) # RequiredItem THEN [w |-> w, msg |-> TRUE]
        ELSE IF held = <<>> THEN [w |-> w, msg |-> TRUE]
        ELSE [w |-> IF ItemRobustness(held[1]) <= BreakThreshold
                    THEN remove_item(w1, character, held[1]) ELSE w1,
              msg |-> TRUE]

\* The loop of EventManager.handle_item_use over the events it lists.
RECURSIVE OfferUse(_, _, _, _, _)
OfferUse(w, evs, item, character, msg) ==
    IF evs = <<>> THEN [w |-> w, msg |-> msg]
    ELSE
    LET e == Head(evs)
        rest(r) == OfferUse(r.w, Tail(evs), item, character, msg \/ r.msg)
    IN  rest(IF w.events[e].is_active /\ w.events[e].kind = "Blockade"
             THEN BlockadeHandleUse(w, e, item, character)
             ELSE [w |-> w, msg |-> FALSE])

\* EventManager.handle_item_use: the events of the actor's area, then the
\* manager's, each once.  A fight answers a use_item with no text.
handle_item_use(w, character, item) ==
    OfferUse(w, Dedup(w.area_events[w.current_area[character]] \o w.active_events, {}),
             item, character, FALSE)

(***************************************************************************)
(* Actions (actions.py).  An action is the dict the parser produces, with  *)
(* its ids already resolved to objects: action, requested action, target,  *)
(* second target, item, location (None where the slot is empty).           *)
(***************************************************************************)
Act(action, requested, target, second, item, location) ==
    [action |-> action, requested_action |-> requested, target |-> target,
     second_target |-> second, item |-> item, location |-> location]

\* EventManager.get_active_event_for_character: the first active event of
\* the manager's list the character takes part in, or 0.
get_active_event_for_character(w, character) ==
    FirstOr(SelectSeq(w.active_events,
               LAMBDA e : w.events[e].is_active /\ character \in w.events[e].participants), 0)

\* validate_action.explain_character
explain_character(w, who, actor, allow_dead) ==
    IF who = None THEN "It is not clear which person is meant?"
    ELSE IF ~allow_dead /\ ~w.is_alive[who] THEN "is dead and cannot participate"
    ELSE IF InSeq(who, w.characters[w.current_area[actor]]) \/ InSeq(who, w.party[actor]) THEN None
    ELSE "is not here"

\* validate_action.explain_item
explain_item(w, itm, intent, actor) ==
    IF itm = None THEN "It is unclear which item is meant"
    ELSE IF actor \notin w.known_by[itm] /\ ~InSeq(itm, w.inventory[actor])
         THEN "does not recognize the item"
    ELSE IF InSeq(itm, w.inventory[actor])
         THEN (IF intent = "pick up" THEN "already has it" ELSE None)
    ELSE IF InSeq(itm, w.key_items[w.current_area[actor]]) THEN None
    ELSE "the item is not here"

\* validate_action.explain_location
explain_location(w, loc, intent, actor, allow_current) ==
    IF loc = None THEN "It is unclear where to"
    ELSE IF loc = w.current_area[actor]
         THEN (IF allow_current THEN None ELSE "is already there")
    ELSE IF intent = "move" /\ ~InSeq(loc, get_linked_areas(w.current_area[actor]))
         THEN "cannot reach it directly from here"
    ELSE IF intent = "move" THEN validate_movement(w, w.current_area[actor], loc)
    ELSE None

\* validate_action.validate_move: intent "travel", so neither adjacency nor
\* blockades are looked at.
validate_move(w, loc, actor) == explain_location(w, loc, "travel", actor, FALSE)

\* validate_action.validate_use
validate_use(w, itm, tgt, actor) ==
    LET msg == explain_item(w, itm, "use", actor)
    IN  IF msg # None THEN msg
        ELSE IF tgt # None THEN explain_character(w, tgt, actor, FALSE)
        ELSE None

\* validate_action.validate_give
validate_give(w, itm, recv, actor) ==
    IF itm = None THEN "does not see any such item"
    ELSE IF ~InSeq(itm, w.inventory[actor]) THEN "is not in the inventory"
    ELSE explain_character(w, recv, actor, FALSE)

\* validate_action.validate_steal
validate_steal(w, itm, victim, actor) ==
    LET msg == explain_character(w, victim, actor, TRUE)
    IN  IF msg # None THEN msg
        ELSE IF itm = None THEN "There is no item specified to be stolen."
        ELSE IF ~InSeq(itm, w.inventory[victim]) THEN "does not have it"
        ELSE None

\* validate_action.validate_search: an area or a person is enough.
validate_search(w, loc, person, actor) ==
    LET m_loc == IF loc = None THEN "Ellipsis"
                 ELSE explain_location(w, loc, "search", actor, TRUE)
        m_person == IF person = None THEN "Ellipsis"
                    ELSE explain_character(w, person, actor, TRUE)
    IN  IF m_loc = None \/ m_person = None THEN None
        ELSE IF m_loc # "Ellipsis" THEN m_loc
        ELSE IF m_person # "Ellipsis" THEN m_person
        ELSE None

\* validate_action.validate_equip / validate_unequip / validate_drop
validate_owned(w, itm, actor) ==
    IF itm = None THEN "Which item?"
    ELSE IF ~InSeq(itm, w.inventory[actor]) THEN "is not in the inventory"
    ELSE None

\* The ask_action branch of validate_action, once the asked character is
\* known to be present: the request is validated with the asked character
\* as the actor, victim and receiver defaulting to the asker.
validate_requested(w, a, action_taker) ==
    LET actor == a.target
        second_or_asker == IF a.second_target # None THEN a.second_target ELSE action_taker
        r == a.requested_action
    IN  CASE r = "move" -> validate_move(w, a.location, actor)
          [] r = "search" -> validate_search(w, IF a.location # None THEN a.location
                                                ELSE w.current_area[actor],
                                             a.second_target, actor)
          [] r = "pick_up" -> explain_item(w, a.item, "pick up", actor)
          [] r = "use_item" -> validate_use(w, a.item, a.second_target, actor)
          [] r = "give_item" -> validate_give(w, a.item, second_or_asker, actor)
          [] r \in {"equip_item", "unequip_item", "drop_item"} -> validate_owned(w, a.item, actor)
          [] r = "harm" -> explain_character(w, second_or_asker, actor, FALSE)
          [] r = "steal" -> validate_steal(w, a.item, second_or_asker, actor)
          [] r \in {"join_party", "quit_party"} -> None
          [] r = "stop_event" -> IF get_active_event_for_character(w, actor) # 0 THEN None
                                 ELSE "has no ongoing event to stop"
          [] OTHER -> "does not know how to ask someone to do that"

\* validate_action: None when the action may run, else the reason.  Every
\* event's is_action_allowed is constantly True, so the event guard never
\* rejects.
validate_action(w, a, action_taker) ==
    IF ~w.is_alive[action_taker] THEN "cannot act because they are dead"
    ELSE
    CASE a.action = "move" -> validate_move(w, a.location, action_taker)
      [] a.action = "search" -> validate_search(w, a.location, a.target, action_taker)
      [] a.action \in {"equip_item", "unequip_item", "drop_item"} ->
            validate_owned(w, a.item, action_taker)
      [] a.action = "pick_up" -> explain_item(w, a.item, "pick up", action_taker)
      [] a.action = "use_item" -> validate_use(w, a.item, a.target, action_taker)
      [] a.action = "give_item" -> validate_give(w, a.item, a.target, action_taker)
      [] a.action = "harm" -> explain_character(w, a.target, action_taker, FALSE)
      [] a.action = "steal" -> validate_steal(w, a.item, a.target, action_taker)
      [] a.action = "ask_action" ->
            IF a.target = None THEN "Please ask one specific character to do one specific thing."
            ELSE IF explain_character(w, a.target, action_taker, FALSE) # None
                 THEN explain_character(w, a.target, action_taker, FALSE)
            ELSE IF a.requested_action = None
                 THEN "It is clear an action is requested, but not which one."
            ELSE validate_requested(w, a, action_taker)
      [] a.action = "do_nothing" -> None
      \* validate_inform: only the receiver is looked at
      [] a.action = "inform" -> explain_character(w, a.target, action_taker, FALSE)
      [] a.action = "stop_event" ->
            IF get_active_event_for_character(w, action_taker) = 0
            THEN "There is no ongoing event to stop" ELSE None
      [] a.action \in {"join_party", "quit_party"} ->
            explain_character(w, a.target, action_taker, FALSE)
      [] OTHER -> "No action could be recognized."

(***************************************************************************)
(* Execution (actions.py process_* and activate_action).                   *)
(***************************************************************************)
\* Character.remember(item) for each of a list of characters: the
\* characters join item.known_by.
RememberItems(w, who, its) ==
    [w EXCEPT !.known_by = [it \in Items |-> IF it \in its THEN @[it] \cup who ELSE @[it]]]

\* The search of process_move_action: breadth first over the linked areas,
\* skipping the hops validate_movement blocks.  The queue holds paths.
RECURSIVE Bfs(_, _, _, _)
RECURSIVE BfsNeighbors(_, _, _, _, _, _)
BfsNeighbors(w, nbs, cur_path, queue, visited, area) ==
    IF nbs = <<>> THEN Bfs(w, queue, visited, area)
    ELSE
    LET nb == Head(nbs)
        node == cur_path[Len(cur_path)]
    IN  IF nb \in visited \/ validate_movement(w, node, nb) # None
        THEN BfsNeighbors(w, Tail(nbs), cur_path, queue, visited, area)
        ELSE IF nb = area THEN Append(cur_path, nb)
        ELSE BfsNeighbors(w, Tail(nbs), cur_path, Append(queue, Append(cur_path, nb)),
                          visited \cup {nb}, area)

Bfs(w, queue, visited, area) ==
    IF queue = <<>> THEN <<>>
    ELSE
    LET cur_path == Head(queue)
        node == cur_path[Len(cur_path)]
    IN  IF node = area THEN cur_path
        ELSE BfsNeighbors(w, get_linked_areas(node), cur_path, Tail(queue), visited, area)

\* The walk of process_move_action along path[i..]: each hop is checked
\* again, taken with move_to, and followed by the event triggers.
RECURSIVE Walk(_, _, _, _)
Walk(w, character, path, i) ==
    IF i > Len(path) THEN w
    ELSE IF validate_movement(w, path[i - 1], path[i]) # None THEN w
    ELSE Walk(check_for_event_triggers_after_action(move_to(w, character, path[i]), character),
              character, path, i + 1)

\* TurnHandler.queue_step: the actor's plan is replaced.
queue_step(w, owner, step, origin) ==
    [w EXCEPT !.plans[owner] = [steps |-> <<step>>, cursor |-> 0, origin |-> origin]]

\* TurnHandler.queue_controller_actions over the allies of a mapping whose
\* i-th ally gets steps[i].
RECURSIVE queue_controller_actions(_, _, _, _)
queue_controller_actions(w, allies, steps, origin) ==
    IF allies = <<>> THEN w
    ELSE queue_controller_actions(queue_step(w, Head(allies), Head(steps), origin),
                                  Tail(allies), Tail(steps), origin)

\* process_move_action
process_move_action(w, area, character) ==
    LET here == w.current_area[character]
        allies_in_start == SelectSeq(w.party[character],
                              LAMBDA m : m # character /\ w.is_alive[m] /\ w.current_area[m] = here)
        \* the allies left behind are queued a move to where the mover ended
        regroup(w1, final_dest, followers) ==
            queue_controller_actions(w1, followers,
                [i \in 1..Len(followers) |-> Act("move", None, None, None, None, final_dest)],
                "group-move")
        arrived(w1, final_dest) ==
            regroup(w1, final_dest,
                    SelectSeq(allies_in_start, LAMBDA m : w1.current_area[m] # final_dest))
        walked(w1) == arrived(w1, w1.current_area[character])
        along(path) == IF path = <<>> THEN w ELSE walked(Walk(w, character, path, 2))
    IN  IF ~w.is_alive[character] THEN w
        ELSE IF here = area THEN w
        ELSE along(Bfs(w, <<(<<here>>)>>, {here}, area))

\* process_equip_item_action
process_equip_item_action(w, item, character) ==
    IF ~InSeq(item, w.inventory[character]) THEN w
    ELSE [equip(w, character, item, None) EXCEPT !.is_equipped[item] = TRUE]

\* process_unequip_item_action
process_unequip_item_action(w, item, character) ==
    IF ~w.is_equipped[item] THEN w
    ELSE
    LET disarm(w1) ==
            IF w1.weapon[character] = item THEN [w1 EXCEPT !.weapon[character] = None] ELSE w1
    IN  disarm([unequip(w, character, item) EXCEPT !.is_equipped[item] = FALSE])

\* process_pick_up_item_action
process_pick_up_item_action(w, item, character) ==
    LET here == w.current_area[character]
        \* the party members present learn of the item
        share(w3) == RememberItems(w3, Range(w3.party[character]), {item})
    IN  IF InSeq(item, w.key_items[here]) /\ character \in w.known_by[item]
        THEN share(process_equip_item_action(
                       [add_item(w, character, item) EXCEPT !.key_items[here] = Remove(@, item)],
                       item, character))
        ELSE w

HealAmount == 30

\* A use that leaves the target's health as it was.
use_without_effect(w, item, actor, target) == handle_item_use(w, actor, item).w

\* process_use_item_action
process_use_item_action(w, item, actor, target) ==
    LET \* r: what the events made of the use
        apply(r) ==
            IF r.msg THEN r.w
            ELSE IF target # None /\ w.is_alive[target] /\ HasMedicate(item)
            THEN update_health(r.w, target, HealAmount)
            ELSE r.w
    IN  apply(handle_item_use(w, actor, item))

AcceptFriendship == 3

NeedyHealth == 40

\* process_give_item_action
process_give_item_action(w, item, target, character) ==
    LET friendship_level == friendship_with(w, target, character)
        w1 == add_item(remove_item(w, character, item), target, item)
    IN  IF ~InSeq(item, w.inventory[character]) THEN w
        ELSE IF friendship_level >= AcceptFriendship
        THEN update_friendship_with(process_equip_item_action(w1, item, target), target, character, 1)
        ELSE IF w.health[target] <= NeedyHealth THEN w1
        ELSE w

JoinHealth == 30

JoinFriendship == 5

\* process_join_party_action
process_join_party_action(w, target, character) ==
    LET \* the newcomer learns what the members carry
        teach(w2, current_members) ==
            RememberItems(w2, {target},
                          UNION {Range(w2.inventory[m]) : m \in current_members})
        \* the members learn what the newcomer carries
        introduce(w1, current_members) ==
            teach(RememberItems(w1, current_members, Range(w1.inventory[target])),
                  current_members)
        joined(w1) ==
            introduce(w1, {character} \cup (Range(w1.party[character]) \ {target}))
    IN  IF ~InSeq(target, w.characters[w.current_area[character]]) THEN w
        ELSE IF w.health[target] <= JoinHealth \/ w.health[character] <= JoinHealth THEN w
        ELSE IF friendship_with(w, target, character) >= JoinFriendship
        THEN joined(add_party_member(w, character, target))
        ELSE w

\* process_quit_party_action
process_quit_party_action(w, target, character) ==
    IF w.party[character] = <<>> THEN w
    ELSE IF ~InSeq(target, w.party[character]) THEN w
    ELSE remove_party_member(w, character, target)

\* process_stop_event on the actor's active event: a fight is ended by
\* FightEvent.attempt_stop_fight, a blockade cannot be stopped.
process_stop_event(w, character, current_event) ==
    IF w.events[current_event].kind = "Fight" THEN FightResolve(w, current_event) ELSE w

\* process_search_action
process_search_action(w, actor, location, person) ==
    LET area == IF location # None THEN location ELSE w.current_area[actor]
        w1 == RememberItems(w, {actor}, Range(w.inventory[person]))
    IN  IF person # None
        THEN (IF ~InSeq(person, w.characters[w.current_area[actor]]) /\ ~InSeq(person, w.party[actor])
              THEN w
              ELSE IF w.is_alive[person] THEN update_friendship_with(w1, person, actor, -1)
              ELSE w1)
        ELSE IF area = w.current_area[actor]
        THEN RememberItems(w, {actor}, Range(w.key_items[area]))
        ELSE w

\* process_steal_action
process_steal_action(w, item, target, thief) ==
    LET \* target.friendships[thief] = max(0, current_friendship - 1)
        resent(w2, current_friendship) ==
            [w2 EXCEPT !.friendships[target][thief] =
                           IF current_friendship - 1 < 0 THEN 0 ELSE current_friendship - 1]
        taken(w2) == resent(w2, friendship_with(w2, target, thief))
    IN  IF ~InSeq(target, w.characters[w.current_area[thief]] \o w.party[thief]) THEN w
        ELSE IF ~InSeq(item, w.inventory[target]) THEN w
        ELSE taken(process_equip_item_action(
                       add_item(remove_item(w, target, item), thief, item), item, thief))

\* process_drop_item_action
process_drop_item_action(w, item, character) ==
    IF ~InSeq(item, w.inventory[character]) THEN w
    ELSE
    LET here == w.current_area[character]
    IN  [remove_item(w, character, item) EXCEPT !.key_items[here] = Append(@, item),
                                                !.holder[item] = None,
                                                !.position[item] = here]

\* Python round() of num/den for num >= 0: ties go to the even neighbour.
RoundHalfEven(num, den) ==
    LET q == num \div den
        r == num % den
    IN  IF 2 * r < den THEN q
        ELSE IF 2 * r > den THEN q + 1
        ELSE IF q % 2 = 0 THEN q ELSE q + 1

UnarmedDamage == 5

\* compute_damage of process_harm_action.  equipped_weapon asks the
\* equipment for "hand_right"/"hand_left", keys the dict never has, and so
\* always answers who.weapon.
compute_damage(w, attacker) ==
    LET wpn == w.weapon[attacker]
        at_least_one(scaled) == IF scaled < 1 THEN 1 ELSE scaled
        scale(base) ==
            at_least_one(RoundHalfEven(base * (20 + Strength(attacker) + Skill(attacker)), 20))
        or_unarmed(dmg) == scale(IF dmg = 0 THEN UnarmedDamage ELSE dmg)
    IN  or_unarmed(IF wpn = None THEN 0 ELSE ItemDamage(wpn))

\* ensure_fight_event of process_harm_action
\* A fight is opened without looking for one that is under way.
always_new_fight(w, loc, participants) ==
    SpawnFight(w, loc, {p \in participants : w.is_alive[p]})

ensure_fight_event(w, loc, participants) ==
    LET alive == {p \in participants : w.is_alive[p]}
        listed(w1, e) ==
            IF InSeq(e, w1.area_events[loc]) THEN w1
            ELSE [w1 EXCEPT !.area_events[loc] = Append(@, e)]
        join(e) == listed([w EXCEPT !.events[e].participants = @ \cup alive], e)
        found(existing) ==
            IF existing # <<>> THEN join(existing[1]) ELSE SpawnFight(w, loc, alive)
    IN  found(ActiveFightsIn(w, loc))

\* present_alive_in_area of process_harm_action
present_alive_in_area(w, members, area) ==
    SelectSeq(members, LAMBDA m : w.is_alive[m] /\ w.current_area[m] = area)

\* group_for of process_harm_action
group_for(w, ch) ==
    <<ch>> \o SelectSeq(present_alive_in_area(w, w.party[ch], w.current_area[ch]),
                        LAMBDA m : m # ch)

\* n to the power k
RECURSIVE Pow(_, _)
Pow(n, k) == IF k = 0 THEN 1 ELSE n * Pow(n, k - 1)

\* random.choice(defenders) for the i-th ally: rnd holds the draws of one
\* call of process_harm_action as the digits of a number in base
\* Len(defenders).
RandomChoice(defenders, rnd, i) ==
    defenders[((rnd \div Pow(Len(defenders), i - 1)) % Len(defenders)) + 1]

\* process_harm_action.  witness_violence is called with keywords it does
\* not have, then positionally, where it ends in set_friendship_with, a
\* method Character does not have; it swallows the error and changes
\* nothing.
process_harm_action(w, target, character, rnd) ==
    LET here == w.current_area[character]
        \* every ally of the attacker is queued a harm on a defender
        cascade(w4, defenders, allies) ==
            queue_controller_actions(w4, allies,
                [i \in 1..Len(allies) |->
                    Act("harm", None, RandomChoice(defenders, rnd, i), None, None, None)],
                "group-join")
        sides(w4, alive_defenders, attackers) ==
            cascade(w4, IF alive_defenders = <<>> THEN <<target>> ELSE alive_defenders,
                    SelectSeq(attackers,
                       LAMBDA a : a # character /\ w4.is_alive[a] /\ w4.current_area[a] = here))
        groups(w4, grouped) ==
            sides(w4, SelectSeq(grouped, LAMBDA d : w4.is_alive[d]), group_for(w4, character))
        fight(w4) ==
            groups(w4, IF w4.party[target] # <<>> THEN group_for(w4, target) ELSE <<target>>)
        \* the death bookkeeping, then the fight event
        bury(w2, killed) ==
            fight(ensure_fight_event(
                      IF killed
                      THEN [w2 EXCEPT !.is_alive[target] = FALSE, !.health[target] = 0,
                                      !.party[target] = <<>>]
                      ELSE w2,
                      here, {character, target}))
        \* the victim's friendship with the attacker drops to the floor
        resent(w1, cur) ==
            bury(IF cur > 0 THEN update_friendship_with(w1, target, character, -cur) ELSE w1,
                 w1.health[target] <= 0)
        hit(w1) == resent(w1, friendship_with(w1, target, character))
    IN  IF ~InSeq(target, w.characters[here]) THEN w
        ELSE IF ~w.is_alive[character] THEN w
        ELSE IF ~w.is_alive[target] THEN w
        ELSE hit(update_health(w, target, -compute_damage(w, character)))

\* activate_action.  stop_event without an active event fails on the None
\* it is handed before anything is changed; the parser's talk and examine
\* are not among the inputs.
RECURSIVE activate_action(_, _, _, _)
activate_action(w, a, action_taker, rnd) ==
    LET target == a.target
        item == a.item
        asked_char == a.target
        requested_action == a.requested_action
        dflt == IF a.second_target # None THEN a.second_target ELSE action_taker
        sub_target ==
            IF requested_action \in {"talk", "give_item", "harm", "steal"} THEN dflt
            ELSE IF requested_action \in {"search", "use_item"} THEN a.second_target
            ELSE None
        sub_location ==
            IF requested_action = "search" /\ a.second_target = None /\ a.location = None
            THEN w.current_area[asked_char] ELSE a.location
        sub == Act(requested_action, None, sub_target, None, item, sub_location)
        taught == IF /\ requested_action = "pick_up"
                     /\ item # None
                     /\ InSeq(item, w.key_items[w.current_area[action_taker]])
                  THEN RememberItems(w, {asked_char}, {item}) ELSE w
        active_event == get_active_event_for_character(w, action_taker)
        done ==
            CASE a.action = "move" -> process_move_action(w, a.location, action_taker)
              [] a.action = "search" -> process_search_action(w, action_taker, a.location, target)
              [] a.action = "equip_item" -> process_equip_item_action(w, item, action_taker)
              [] a.action = "unequip_item" -> process_unequip_item_action(w, item, action_taker)
              [] a.action = "pick_up" -> process_pick_up_item_action(w, item, action_taker)
              [] a.action = "use_item" -> process_use_item_action(w, item, action_taker, target)
              [] a.action = "give_item" -> process_give_item_action(w, item, target, action_taker)
              [] a.action = "harm" -> process_harm_action(w, target, action_taker, rnd)
              [] a.action = "steal" -> process_steal_action(w, item, target, action_taker)
              [] a.action = "stop_event" -> process_stop_event(w, action_taker, active_event)
              [] a.action = "join_party" -> process_join_party_action(w, target, action_taker)
              [] a.action = "quit_party" -> process_quit_party_action(w, target, action_taker)
              [] a.action = "drop_item" -> process_drop_item_action(w, item, action_taker)
              [] a.action = "ask_action" ->
                    IF requested_action = "join_party"
                    THEN process_join_party_action(w, asked_char, dflt)
                    ELSE IF requested_action = "quit_party"
                    THEN process_quit_party_action(w, asked_char, dflt)
                    ELSE activate_action(taught, sub, asked_char, rnd)
              [] OTHER -> w
    IN  IF a.action \in {"give_item", "join_party", "quit_party"} /\ ~w.is_alive[target] THEN w
        ELSE IF a.action = "ask_action" /\
                (asked_char = None \/ ~w.is_alive[asked_char]
                 \/ ~InSeq(asked_char, w.characters[w.current_area[action_taker]])
                 \/ requested_action = None) THEN w
        ELSE IF a.action = "stop_event" /\ active_event = 0 THEN w
        ELSE check_for_event_triggers_after_action(done, action_taker)

(***************************************************************************)
(* Save and undo (saveLoad.py).  A serialized state is a record; the order *)
(* of its "characters" dict, which apply_game_state_dict iterates, is kept *)
(* in the field order.  Link descriptions, traits and the areas' "items"   *)
(* pools never change and are left out.                                    *)
(***************************************************************************)
\* Character.refresh_known_state followed by the remember loops of
\* get_story, as far as items go: the inventory and the floor of the current
\* area become known.
refresh_known_state(w, p) ==
    RememberItems(w, {p}, Range(w.inventory[p]) \cup Range(w.key_items[w.current_area[p]]))

\* s1 followed by s2, flattened
RECURSIVE Flatten(_)
Flatten(ss) == IF ss = <<>> THEN <<>> ELSE Head(ss) \o Flatten(Tail(ss))

\* _collect_characters
collect_characters(w) ==
    LET with_parties(in_areas) ==
            in_areas \o Dedup(Flatten([i \in 1..Len(in_areas) |-> w.party[in_areas[i]]]),
                              Range(in_areas))
    IN  with_parties(Dedup(Flatten([i \in 1..Len(sub_areas) |-> w.characters[sub_areas[i]]])
                           \o <<player>>, {}))

\* The items _collect_items gathers from one character: inventory, weapon,
\* equipment values.
CharacterItems(w, c) ==
    w.inventory[c]
    \o (IF w.weapon[c] # None THEN <<w.weapon[c]>> ELSE <<>>)
    \o SelectSeq([i \in 1..Len(SlotOrder) |-> w.equipment[c][SlotOrder[i]]],
                 LAMBDA it : it # None)

\* _collect_items
collect_items(w, characters) ==
    Dedup(Flatten([i \in 1..Len(sub_areas) |-> w.key_items[sub_areas[i]]])
          \o Flatten([i \in 1..Len(characters) |-> CharacterItems(w, characters[i])]), {})

\* The dict comprehension {name: item}: a later item of the same name
\* replaces an earlier one.
name_to_item(items, n) == LastOr(SelectSeq(items, LAMBDA it : ItemName(it) = n), None)

\* _find_area_holding
find_area_holding(w, item) ==
    FirstOr(SelectSeq(sub_areas, LAMBDA a : InSeq(item, w.key_items[a])), None)

\* A list of items as the list of their names
Names(its) == [i \in 1..Len(its) |-> ItemName(its[i])]

\* _serialize_current_state
serialize_current_state(w) ==
    LET item_entry(it) ==
            [position_area |-> IF w.position[it] # None THEN w.position[it]
                               ELSE find_area_holding(w, it),
             holder |-> w.holder[it],
             is_equipped |-> w.is_equipped[it]]
        document(characters, known, items) ==
            [order |-> characters,
             characters |-> [c \in known |->
                [health |-> w.health[c],
                 current_area |-> w.current_area[c],
                 is_alive |-> w.is_alive[c],
                 weapon |-> IF w.weapon[c] = None THEN None ELSE ItemName(w.weapon[c]),
                 inventory |-> Names(w.inventory[c]),
                 party |-> w.party[c],
                 friendships |-> [d \in known |-> w.friendships[c][d]],
                 equipment |-> [sl \in Slots |->
                                  IF w.equipment[c][sl] = None THEN None
                                  ELSE ItemName(w.equipment[c][sl])]]],
             items |-> [n \in {ItemName(it) : it \in Range(items)} |->
                          item_entry(name_to_item(items, n))],
             areas |-> [a \in Areas |-> [characters |-> w.characters[a],
                                         key_items |-> Names(w.key_items[a])]],
             player_area |-> w.current_area[player]]
        collected(characters) ==
            document(characters, Range(characters), collect_items(w, characters))
    IN  collected(collect_characters(w))

\* Equality of two serialized states as dicts: the key order is not part
\* of it.
SameState(s, t) == [s EXCEPT !.order = <<>>] = [t EXCEPT !.order = <<>>]

\* apply_game_state_dict, the inventory loop of one character: every saved
\* name is looked up, taken from a previous holder, and appended once.
RECURSIVE RestoreInventory(_, _, _, _)
RestoreInventory(w, c, desired_inv, items) ==
    IF desired_inv = <<>> THEN w
    ELSE
    LET put(w1, it) ==
            [w1 EXCEPT !.holder[it] = c, !.position[it] = None,
                       !.inventory[c] = IF InSeq(it, @) THEN @ ELSE Append(@, it)]
        take(it, prev_holder) ==
            put(IF prev_holder # None /\ prev_holder # c
                THEN [w EXCEPT !.inventory[prev_holder] = Remove(@, it)] ELSE w, it)
        restore(it) == IF it = None THEN w ELSE take(it, w.holder[it])
    IN  RestoreInventory(restore(name_to_item(items, Head(desired_inv))),
                         c, Tail(desired_inv), items)

\* apply_game_state_dict, the inventory and weapon pass over the saved
\* characters in dict order.  The saved weapon is put into the inventory
\* when it is not there.
RECURSIVE RestoreHoldings(_, _, _, _, _)
RestoreHoldings(w, data, names, known, items) ==
    IF names = <<>> THEN w
    ELSE
    LET c == Head(names)
        cdata == data.characters[c]
        arm(w1, wpn) ==
            IF wpn = None THEN w1
            ELSE [w1 EXCEPT !.weapon[c] = wpn,
                            !.inventory[c] = IF InSeq(wpn, @) THEN @ ELSE Append(@, wpn),
                            !.holder[wpn] = c,
                            !.position[wpn] = None]
    IN  IF c \notin known THEN RestoreHoldings(w, data, Tail(names), known, items)
        ELSE RestoreHoldings(
                 arm(RestoreInventory([w EXCEPT !.inventory[c] = <<>>], c, cdata.inventory, items),
                     IF cdata.weapon = None THEN None ELSE name_to_item(items, cdata.weapon)),
                 data, Tail(names), known, items)

\* apply_game_state_dict, the key_items of one area: a saved name is put
\* back on the floor when its item has no holder.
RECURSIVE RestoreFloor(_, _, _, _)
RestoreFloor(w, area, names, items) ==
    IF names = <<>> THEN w
    ELSE
    LET lay(it) ==
            IF it = None \/ w.holder[it] # None THEN w
            ELSE [w EXCEPT !.position[it] = area, !.key_items[area] = Append(@, it)]
    IN  RestoreFloor(lay(name_to_item(items, Head(names))), area, Tail(names), items)

\* apply_game_state_dict, the pass over the saved areas.
RECURSIVE RestoreAreas(_, _, _, _, _)
RestoreAreas(w, data, areas, known, items) ==
    IF areas = <<>> THEN w
    ELSE
    LET a == Head(areas)
        w1 == [w EXCEPT !.characters[a] = SelectSeq(data.areas[a].characters,
                                                    LAMBDA n : n \in known),
                        !.key_items[a] = <<>>]
    IN  RestoreAreas(RestoreFloor(w1, a, data.areas[a].key_items, items),
                     data, Tail(areas), known, items)

\* apply_game_state_dict, step 1: the placement of the collected characters
\* and items is cleared.
clear_placement(w, known, found) ==
    [w EXCEPT
       !.characters = [a \in Areas |-> <<>>],
       !.key_items = [a \in Areas |-> <<>>],
       !.inventory = [c \in Chars |-> IF c \in known THEN <<>> ELSE @[c]],
       !.party = [c \in Chars |-> IF c \in known THEN <<>> ELSE @[c]],
       !.weapon = [c \in Chars |-> IF c \in known THEN None ELSE @[c]],
       !.holder = [it \in Items |-> IF it \in found THEN None ELSE @[it]],
       !.position = [it \in Items |-> IF it \in found THEN None ELSE @[it]],
       !.is_equipped = [it \in Items |-> IF it \in found THEN FALSE ELSE @[it]]]

\* apply_game_state_dict.  Character.equipment is not written; the events
\* are touched only through the link descriptions, which never equal a
\* blockade's resolved description.
apply_game_state_dict(w, data) ==
    LET restore(known, items, found, saved) ==
        LET
        \* everything is cleared
        w1 == clear_placement(w, known, found)
        \* scalars, friendships, item flags and parties
        w2 == [w1 EXCEPT
                 !.health = [c \in Chars |-> IF c \in saved THEN data.characters[c].health ELSE @[c]],
                 !.is_alive = [c \in Chars |-> IF c \in saved THEN data.characters[c].is_alive ELSE @[c]],
                 !.current_area = [c \in Chars |->
                                     IF c \in saved THEN data.characters[c].current_area ELSE @[c]],
                 !.characters = [a \in Areas |->
                                   SelectSeq(data.order,
                                             LAMBDA c : c \in saved /\ data.characters[c].current_area = a)],
                 !.friendships = [c \in Chars |->
                                    IF c \in saved
                                    THEN [d \in Chars |->
                                            IF d \in DOMAIN data.characters[c].friendships /\ d \in known
                                            THEN data.characters[c].friendships[d]
                                            ELSE DefaultFriendship]
                                    ELSE @[c]],
                 !.is_equipped = [it \in Items |->
                                    IF it \in found /\ ItemName(it) \in DOMAIN data.items
                                       /\ name_to_item(items, ItemName(it)) = it
                                    THEN data.items[ItemName(it)].is_equipped
                                    ELSE @[it]],
                 !.party = [c \in Chars |->
                              IF c \in saved
                              THEN SelectSeq(data.characters[c].party, LAMBDA n : n \in known)
                              ELSE @[c]]]
        w3 == RestoreHoldings(w2, data, data.order, known, items)
        w4 == RestoreAreas(w3, data, sub_areas, known, items)
        p_area == data.player_area
        IN  [w4 EXCEPT !.current_area[player] = p_area,
                       !.characters[p_area] = IF InSeq(player, @) THEN @ ELSE Append(@, player)]
        gathered(known, items) ==
            restore(known, items, Range(items), {c \in DOMAIN data.characters : c \in known})
        collected(characters) ==
            gathered(Range(characters), collect_items(w, characters))
    IN  collected(collect_characters(w))

(***************************************************************************)
(* validate_action_sequence (actions.py): the chain is validated against a *)
(* phantom world.  A phantom state is the world together with the          *)
(* snapshot dict: the characters and areas touched so far and what they    *)
(* held when first touched.                                                *)
(***************************************************************************)
EmptySnapshot(w) ==
    [chars |-> {}, areas |-> {},
     current_area |-> w.current_area, inventory |-> w.inventory, party |-> w.party,
     key_items |-> w.key_items]

\* snap_char
snap_char(ps, ch) ==
    IF ch \in ps.snapshot.chars THEN ps
    ELSE [ps EXCEPT !.snapshot.chars = @ \cup {ch},
                    !.snapshot.current_area[ch] = ps.w.current_area[ch],
                    !.snapshot.inventory[ch] = ps.w.inventory[ch],
                    !.snapshot.party[ch] = ps.w.party[ch]]

\* snap_area
snap_area(ps, area) ==
    IF area \in ps.snapshot.areas THEN ps
    ELSE [ps EXCEPT !.snapshot.areas = @ \cup {area},
                    !.snapshot.key_items[area] = ps.w.key_items[area]]

\* move_item_between_chars
move_item_between_chars(ps, itm, src, dst) ==
    IF itm = None \/ src = None \/ dst = None THEN ps
    ELSE
    LET ps1 == snap_char(snap_char(ps, src), dst)
        ps2 == [ps1 EXCEPT !.w.inventory[src] = Remove(@, itm)]
    IN  [ps2 EXCEPT !.w.inventory[dst] = IF InSeq(itm, @) THEN @ ELSE Append(@, itm)]

\* move_item_floor_to_char
move_item_floor_to_char(ps, itm, ch) ==
    IF itm = None \/ ch = None THEN ps
    ELSE
    LET area == ps.w.current_area[ch]
        ps1 == snap_area(snap_char(ps, ch), area)
    IN  [ps1 EXCEPT !.w.key_items[area] = Remove(@, itm),
                    !.w.inventory[ch] = IF InSeq(itm, @) THEN @ ELSE Append(@, itm)]

\* move_item_char_to_floor
move_item_char_to_floor(ps, itm, ch) ==
    IF itm = None \/ ch = None THEN ps
    ELSE
    LET area == ps.w.current_area[ch]
        ps1 == snap_area(snap_char(ps, ch), area)
    IN  [ps1 EXCEPT !.w.inventory[ch] = Remove(@, itm),
                    !.w.key_items[area] = IF InSeq(itm, @) THEN @ ELSE Append(@, itm)]

\* The phantom party edit of join_party / quit_party
PhantomParty(ps, owner, member, joining) ==
    LET ps1 == snap_char(ps, owner)
    IN  IF joining
        THEN [ps1 EXCEPT !.w.party[owner] = IF InSeq(member, @) THEN @ ELSE Append(@, member)]
        ELSE [ps1 EXCEPT !.w.party[owner] = Remove(@, member)]

\* The phantom move
PhantomMove(ps, ch, location) ==
    IF location = None THEN ps
    ELSE [snap_char(ps, ch) EXCEPT !.w.current_area[ch] = location]

\* apply_phantom_effect
apply_phantom_effect(ps, a, action_taker) ==
    LET act == a.action
        req == a.requested_action
        target == a.target
        second == a.second_target
        item == a.item
        other == IF second # None THEN second ELSE action_taker
    IN  CASE act = "move" -> PhantomMove(ps, action_taker, a.location)
          [] act = "pick_up" -> move_item_floor_to_char(ps, item, action_taker)
          [] act = "drop_item" -> move_item_char_to_floor(ps, item, action_taker)
          [] act = "give_item" ->
                IF target # None THEN move_item_between_chars(ps, item, action_taker, target)
                ELSE [snap_char(ps, action_taker) EXCEPT
                         !.w.inventory[action_taker] = Remove(@, item)]
          [] act = "steal" ->
                IF target # None THEN move_item_between_chars(ps, item, target, action_taker)
                ELSE ps
          [] act = "join_party" ->
                IF target # None THEN PhantomParty(ps, action_taker, target, TRUE) ELSE ps
          [] act = "quit_party" ->
                IF target # None THEN PhantomParty(ps, action_taker, target, FALSE) ELSE ps
          [] act = "ask_action" /\ req # None /\ target # None ->
                CASE req = "join_party" -> PhantomParty(ps, other, target, TRUE)
                  [] req = "quit_party" -> PhantomParty(ps, other, target, FALSE)
                  [] req = "give_item" -> move_item_between_chars(ps, item, target, other)
                  [] req = "steal" -> move_item_between_chars(ps, item, other, target)
                  [] req = "move" -> PhantomMove(ps, target, a.location)
                  [] req = "pick_up" -> move_item_floor_to_char(ps, item, target)
                  [] req = "drop_item" -> move_item_char_to_floor(ps, item, target)
                  [] OTHER -> ps
          [] OTHER -> ps

\* A finally block that forgets the parties.
restore_without_party(ps) ==
    LET sn == ps.snapshot
    IN  [ps.w EXCEPT
           !.current_area = [c \in Chars |-> IF c \in sn.chars THEN sn.current_area[c] ELSE @[c]],
           !.inventory = [c \in Chars |-> IF c \in sn.chars THEN sn.inventory[c] ELSE @[c]],
           !.key_items = [a \in Areas |-> IF a \in sn.areas THEN sn.key_items[a] ELSE @[a]]]

\* The finally block of validate_action_sequence
RestoreSnapshot(ps) ==
    LET sn == ps.snapshot
    IN  [ps.w EXCEPT
           !.current_area = [c \in Chars |-> IF c \in sn.chars THEN sn.current_area[c] ELSE @[c]],
           !.inventory = [c \in Chars |-> IF c \in sn.chars THEN sn.inventory[c] ELSE @[c]],
           !.party = [c \in Chars |-> IF c \in sn.chars THEN sn.party[c] ELSE @[c]],
           !.key_items = [a \in Areas |-> IF a \in sn.areas THEN sn.key_items[a] ELSE @[a]]]

\* The loop of validate_action_sequence from action idx on: the phantom
\* state it ends in and the error of the first action that fails.
RECURSIVE ValidateFrom(_, _, _, _)
ValidateFrom(ps, actions, idx, action_taker) ==
    IF idx > Len(actions) THEN [ps |-> ps, error |-> None, index |-> 0]
    ELSE
    LET judge(error) ==
            IF error # None THEN [ps |-> ps, error |-> error, index |-> idx]
            ELSE ValidateFrom(apply_phantom_effect(ps, actions[idx], action_taker),
                              actions, idx + 1, action_taker)
    IN  judge(validate_action(ps.w, actions[idx], action_taker))

\* validate_action_sequence: the world it leaves, the error (None when the
\* chain is valid) and the 1-based index of the failing action.
validate_action_sequence(w, actions, action_taker) ==
    LET finally(r) == [w |-> RestoreSnapshot(r.ps), error |-> r.error, index |-> r.index]
    IN  finally(ValidateFrom([w |-> w, snapshot |-> EmptySnapshot(w)], actions, 1, action_taker))

\* Whether check_for_event_triggers_after_action hands back a message: a
\* fight of the passes ended ("The fight has ended.") or a fight was spawned
\* (its description).
event_response(w, character) ==
    \E w2 \in {check_for_event_triggers_after_action(w, character)} :
        \/ Len(w2.events) > Len(w.events)
        \/ \E e \in DOMAIN w.events : w.events[e].is_active /\ ~w2.events[e].is_active

\* Whether the string activate_action returns is non-empty.  Every branch
\* appends the non-empty string of its process_* function or returns a
\* sentence early; an action without a branch appends nothing, and only the
\* after-action event check can add text.  An inform whose subject is
\* nowhere in the world has been rewritten to a talk by validate_action.
activate_action_narrates(w, a, action_taker) ==
    IF a.action \in {"move", "search", "equip_item", "unequip_item", "pick_up", "use_item",
                     "give_item", "harm", "ask_action", "steal", "do_nothing", "stop_event",
                     "join_party", "quit_party", "drop_item"}
    THEN TRUE
    ELSE IF a.action = "inform" /\ a.item = None /\ a.location = None /\ a.second_target = None
    THEN TRUE
    ELSE event_response(w, action_taker)

(***************************************************************************)
(* The turn pipeline (InputProcessor.py).                                  *)
(***************************************************************************)
\* _needs_confirmation.is_hostile_to_player
is_hostile_to_player(w, char) ==
    \/ HostileFlag(char)
    \/ friendship_with(w, player, char) <= 1
    \/ friendship_with(w, char, player) <= 1

FriendlyFriendship == 3

\* _needs_confirmation.is_friendly_to_player
is_friendly_to_player(w, char) ==
    /\ char # player
    /\ ~is_hostile_to_player(w, char)
    /\ \/ InSeq(char, w.party[player])
       \/ friendship_with(w, player, char) >= FriendlyFriendship
       \/ friendship_with(w, char, player) >= FriendlyFriendship

\* _needs_confirmation: whether a description comes back, i.e. whether the
\* action is risky.
needs_confirmation(w, a) ==
    LET act == a.action
        req == a.requested_action
        second == a.second_target
        asked_victim == IF second # None THEN second ELSE player
    IN  CASE act = "do_nothing" -> TRUE
          [] act = "harm" ->
                /\ a.target # None
                /\ ~is_hostile_to_player(w, a.target)
                /\ \/ a.target = player
                   \/ w.is_alive[a.target] /\ is_friendly_to_player(w, a.target)
          [] act = "move" -> a.location # None /\ w.current_area[player] = a.location
          [] act \in {"search", "steal"} ->
                /\ a.target # None
                /\ w.is_alive[a.target]
                /\ is_friendly_to_player(w, a.target) \/ a.target = player
          [] act = "ask_action" ->
                CASE req = "do_nothing" -> TRUE
                  [] req = "harm" ->
                        /\ ~is_hostile_to_player(w, asked_victim)
                        /\ \/ asked_victim = player
                           \/ w.is_alive[asked_victim] /\ is_friendly_to_player(w, asked_victim)
                  [] req = "move" ->
                        a.target # None /\ a.location # None
                                       /\ w.current_area[a.target] = a.location
                  [] req = "search" ->
                        second # None /\ w.is_alive[second] /\ is_friendly_to_player(w, second)
                  [] req = "steal" ->
                        \/ asked_victim = player
                        \/ w.is_alive[asked_victim] /\ is_friendly_to_player(w, asked_victim)
                  [] OTHER -> FALSE
          [] OTHER -> FALSE

\* The reply texts the player gives to a pending question.
Replies == {"yes", "no", "cancel"}

\* _is_yes of the undo confirmation
is_yes(ans) == ans \in {"y", "yes", "yeah", "yep", "sure", "ok", "okay"}

\* A confirmation test every reply passes.
any_reply(ans) == TRUE

\* ("yes" in ans) or ("yeah" in ans) of the risky-action confirmation
ContainsYes(ans) == ans \in {"yes", "yeah"}

\* The cancel words of _handle_correction_reply
IsCancelWord(low) ==
    low \in {"no", "no.", "no!", "cancel", "cancel.", "stop", "never mind", "nevermind"}

\* _merge_slot over the four slots: a slot the patch fills replaces the
\* original's.
merge_slots(original, patch) ==
    [original EXCEPT
       !.target = IF patch.target # None THEN patch.target ELSE @,
       !.second_target = IF patch.second_target # None THEN patch.second_target ELSE @,
       !.item = IF patch.item # None THEN patch.item ELSE @,
       !.location = IF patch.location # None THEN patch.location ELSE @]

\* The loop "for act in player_actions: activate_action(...)".
RECURSIVE ExecAll(_, _, _)
ExecAll(w, actions, rnd) ==
    IF actions = <<>> THEN w
    ELSE ExecAll(activate_action(w, Head(actions), player, rnd), Tail(actions), rnd)

\* A snapshot step that overwrites the top of the stack.
push_replacing(snapshots, state) ==
    IF snapshots = <<>> THEN <<state>> ELSE [snapshots EXCEPT ![Len(snapshots)] = state]

\* The snapshot step at the end of a turn: the state is appended unless it
\* equals the top of the stack.
push_snapshot(snapshots, state) ==
    IF snapshots # <<>> /\ SameState(snapshots[Len(snapshots)], state) THEN snapshots
    ELSE Append(snapshots, state)

\* The start of get_story: the knowledge refresh.
start_of_turn(w) == refresh_known_state(w, player)

\* The start of get_story: an empty stack gets the initial snapshot.
ensure_initial_snapshot(snapshots, w) ==
    IF snapshots = <<>> THEN <<serialize_current_state(w)>> ELSE snapshots

(***************************************************************************)
(* The state.  The world's fields are the variables; W is the world value  *)
(* they make up.  last, restored, correction_confirmed and turn are        *)
(* history variables: what the last call of get_story did, the snapshot an *)
(* undo applied, whether the list waiting for a correction had been        *)
(* confirmed, and the number of calls that reached validation.  The        *)
(* remaining variables are the TurnHandler's round counter and the locals  *)
(* of run_one_round (phase: where the handler stands), with attempts the   *)
(* log of the steps the round has consumed.  game_over is the flag the     *)
(* last call of get_story returned; main's loop ends on a flag other than  *)
(* 0.  pushed_events is a history variable too: for every snapshot on the  *)
(* undo stack, the status the events had when it was pushed.               *)
(***************************************************************************)
VARIABLES current_area, characters, key_items, inventory, equipment, weapon, party,
          friendships, health, is_alive, holder, position, is_equipped, known_by,
          events, active_events, area_events, plans,
          undo_snapshots, pending_confirmation_action, pending_correction_actions,
          pending_correction_failed_index, pending_undo_confirm_choice,
          pending_undo_confirm_from_index,
          last, restored, correction_confirmed, turn, game_over, pushed_events,
          completed_action_turns, suggestions,
          round, phase, engaged_with, processed, scan, progressed, pass, attempts,
          idle_flags, busy_event, idle_time, elapsed, user, game_flag, pc

world_vars == <<current_area, characters, key_items, inventory, equipment, weapon, party,
                friendships, health, is_alive, holder, position, is_equipped, known_by,
                events, active_events, area_events, plans>>

pipeline_vars == <<undo_snapshots, pending_confirmation_action, pending_correction_actions,
                   pending_correction_failed_index, pending_undo_confirm_choice,
                   pending_undo_confirm_from_index>>

round_vars == <<round, phase, engaged_with, processed, scan, progressed, pass, attempts>>

history_vars == <<last, restored, correction_confirmed, turn, game_over, pushed_events,
                  completed_action_turns, suggestions>>

\* The command-line loop and its idle watcher (main.py): the shared flags,
\* the time since the last input, and the locals and positions of the two
\* threads.
loop_vars == <<idle_flags, busy_event, idle_time, elapsed, user, game_flag, pc>>

vars == <<world_vars, pipeline_vars, history_vars, round_vars, loop_vars>>

W ==
    [current_area |-> current_area, characters |-> characters, key_items |-> key_items,
     inventory |-> inventory, equipment |-> equipment, weapon |-> weapon, party |-> party,
     friendships |-> friendships, health |-> health, is_alive |-> is_alive,
     holder |-> holder, position |-> position, is_equipped |-> is_equipped,
     known_by |-> known_by, events |-> events, active_events |-> active_events,
     area_events |-> area_events, plans |-> plans]

SetWorld(w) ==
    /\ current_area' = w.current_area
    /\ characters' = w.characters
    /\ key_items' = w.key_items
    /\ inventory' = w.inventory
    /\ equipment' = w.equipment
    /\ weapon' = w.weapon
    /\ party' = w.party
    /\ friendships' = w.friendships
    /\ health' = w.health
    /\ is_alive' = w.is_alive
    /\ holder' = w.holder
    /\ position' = w.position
    /\ is_equipped' = w.is_equipped
    /\ known_by' = w.known_by
    /\ events' = w.events
    /\ active_events' = w.active_events
    /\ area_events' = w.area_events
    /\ plans' = w.plans

\* TurnHandler._plans_by_actor has no entry for the actor.
NoPlan == [steps |-> <<>>, cursor |-> 0, origin |-> None]

InitialHealth(c) == CASE c = larry -> 10 [] c = zombie3 -> 50 [] OTHER -> 100

\* The objects of gameSetup.py as constructed, before any add_item call.
BlankWorld ==
    [current_area |-> [c \in Chars |-> IF c = zombie3 THEN storage_room ELSE main_store],
     characters |-> [a \in Areas |->
                       CASE a = main_store -> <<kenny, carley, larry, player>>
                         [] a = storage_room -> <<zombie3>>
                         [] OTHER -> <<>>],
     key_items |-> [a \in Areas |->
                      CASE a = pharmacy -> <<first_aid_kit>>
                        [] a = storage_room -> <<fire_axe>>
                        [] OTHER -> <<>>],
     inventory |-> [c \in Chars |-> <<>>],
     equipment |-> [c \in Chars |-> NoEquipment],
     weapon |-> [c \in Chars |->
                   CASE c = kenny -> hands_kenny
                     [] c = larry -> hands_larry
                     [] c = zombie3 -> bite
                     [] OTHER -> None],
     party |-> [c \in Chars |-> <<>>],
     friendships |-> InitialFriendships,
     health |-> [c \in Chars |-> InitialHealth(c)],
     is_alive |-> [c \in Chars |-> TRUE],
     holder |-> [it \in Items |-> None],
     position |-> [it \in Items |-> None],
     is_equipped |-> [it \in Items |-> FALSE],
     known_by |-> [it \in Items |->
                     IF it \in {first_aid_kit, fire_axe, flashlight, handgun}
                     THEN {player} ELSE {}],
     events |-> <<NewBlockade>>,
     active_events |-> <<1>>,
     area_events |-> [a \in Areas |-> IF a \in {storage_room, pharmacy} THEN <<1>> ELSE <<>>],
     plans |-> [c \in Chars |-> NoPlan]]

\* gameSetup.py: Carley is handed the Handgun and equips it, Lee is handed
\* the Flashlight.
InitialWorld ==
    add_item(equip(add_item(BlankWorld, carley, handgun), carley, handgun, None),
             player, flashlight)

\* main: the flags and the clock before the first prompt; the watcher
\* thread has been started.
LoopStart ==
    /\ idle_flags = [first_sent |-> FALSE, second_sent |-> FALSE, running |-> TRUE]
    /\ busy_event = FALSE
    /\ idle_time = 0
    /\ elapsed = 0
    /\ user = None
    /\ game_flag = 0
    /\ pc = [main |-> "input", watcher |-> "loop"]

Idle ==
    [handler |-> "start", text |-> None, actions |-> <<>>, ran |-> FALSE, risky |-> FALSE,
     confirmed |-> FALSE]

Init ==
    /\ current_area = InitialWorld.current_area
    /\ characters = InitialWorld.characters
    /\ key_items = InitialWorld.key_items
    /\ inventory = InitialWorld.inventory
    /\ equipment = InitialWorld.equipment
    /\ weapon = InitialWorld.weapon
    /\ party = InitialWorld.party
    /\ friendships = InitialWorld.friendships
    /\ health = InitialWorld.health
    /\ is_alive = InitialWorld.is_alive
    /\ holder = InitialWorld.holder
    /\ position = InitialWorld.position
    /\ is_equipped = InitialWorld.is_equipped
    /\ known_by = InitialWorld.known_by
    /\ events = InitialWorld.events
    /\ active_events = InitialWorld.active_events
    /\ area_events = InitialWorld.area_events
    /\ plans = InitialWorld.plans
    /\ undo_snapshots = <<>>
    /\ pending_confirmation_action = <<>>
    /\ pending_correction_actions = <<>>
    /\ pending_correction_failed_index = -1
    /\ pending_undo_confirm_choice = 0
    /\ pending_undo_confirm_from_index = 0
    /\ last = Idle
    /\ restored = <<>>
    /\ correction_confirmed = FALSE
    /\ turn = 0
    /\ game_over = 0
    /\ pushed_events = <<>>
    /\ completed_action_turns = 0
    /\ suggestions = 0
    /\ round = 1
    /\ phase = "idle"
    /\ engaged_with = [c \in Chars |-> {}]
    /\ processed = {}
    /\ scan = <<>>
    /\ progressed = FALSE
    /\ pass = 0
    /\ attempts = <<>>
    /\ LoopStart

(***************************************************************************)
(* The inputs: the action lists the parser hands to get_story, the slot    *)
(* patches of a correction reply, the snapshot AIundo picks and the draws  *)
(* of random.choice.                                                       *)
(***************************************************************************)
MaxTurns == 3

MaxRnd == 1

Move(loc) == Act("move", None, None, None, None, loc)

Harm(who) == Act("harm", None, who, None, None, None)

PickUp(it) == Act("pick_up", None, None, None, it, None)

UseItem(it, who) == Act("use_item", None, who, None, it, None)

JoinParty(who) == Act("join_party", None, who, None, None, None)

AskHarm(asked, victim) == Act("ask_action", "harm", asked, victim, None, None)

DoNothing == Act("do_nothing", None, None, None, None, None)

Inform(receiver, subject) == Act("inform", None, receiver, None, subject, None)

PlayerInputs ==
    { <<Move(storage_room)>>,
      <<Move(pharmacy)>>,
      <<Move(main_store)>>,
      <<Move(storage_room), Move(pharmacy)>>,
      <<PickUp(fire_axe), UseItem(fire_axe, None)>>,
      <<PickUp(fire_axe)>>,
      <<UseItem(fire_axe, None)>>,
      <<Move(main_store), UseItem(fire_axe, None)>>,
      <<PickUp(first_aid_kit), UseItem(first_aid_kit, player)>>,
      <<JoinParty(kenny)>>,
      <<JoinParty(kenny), AskHarm(carley, kenny)>>,
      <<Harm(kenny)>>,
      <<Harm(None)>>,
      <<Harm(zombie3)>>,
      <<DoNothing>>,
      <<Act("give_item", None, kenny, None, flashlight, None)>>,
      <<Act("drop_item", None, None, None, flashlight, None)>>,
      <<Act("steal", None, carley, None, handgun, None)>>,
      <<Act("search", None, zombie3, None, None, None)>>,
      <<Inform(kenny, flashlight)>>,
      <<Act("quit_party", None, kenny, None, None, None)>>,
      <<Act("unequip_item", None, None, None, flashlight, None)>>,
      <<Act("stop_event", None, None, None, None, None)>> }

\* What process_player_input makes of a correction reply: the slots it
\* fills, or nothing.
Patch(target, location) ==
    [target |-> target, second_target |-> None, item |-> None, location |-> location]

CorrectionReplies ==
    { [text |-> "no", patch |-> <<>>],
      [text |-> "cancel", patch |-> <<>>],
      [text |-> "uh", patch |-> <<>>],
      [text |-> "Kenny", patch |-> <<Patch(kenny, None)>>],
      [text |-> "Female Zombie", patch |-> <<Patch(zombie3, None)>>],
      [text |-> "Main Store", patch |-> <<Patch(None, main_store)>>] }

\* gameSetup.far_away: not among the world's sub-areas and linked to none.
far_away == "Far away"

WinThreshold == 30

\* A checkEnd that looks at the good end first.
checkEnd_win_first(w) ==
    IF w.current_area[player] = far_away \/ w.health[larry] >= WinThreshold THEN 2
    ELSE IF w.health[player] = 0 THEN 1
    ELSE 0

\* checkEnd: 1 the dead end, 2 the good end, 0 the game goes on.
checkEnd(w) ==
    IF w.health[player] = 0 THEN 1
    ELSE IF w.current_area[player] = far_away \/ w.health[larry] >= WinThreshold THEN 2
    ELSE 0

NoPending ==
    /\ pending_undo_confirm_choice = 0
    /\ pending_correction_actions = <<>>
    /\ pending_confirmation_action = <<>>

\* The status of the events of a world.
event_status(w) ==
    [e \in DOMAIN w.events |->
        [is_active |-> w.events[e].is_active, is_resolved |-> w.events[e].is_resolved]]

\* The statuses that go with the snapshots a call leaves on the stack: a
\* snapshot that was on the stack (the initial one, pushed at the start of
\* the call, included) keeps its entry, a snapshot pushed at the end of the
\* call gets the status of the world it was taken from.
event_log(w, snapshots, ensured, log) ==
    [i \in 1..Len(snapshots) |->
        IF i <= Len(ensured) /\ snapshots[i] = ensured[i] THEN log[i] ELSE event_status(w)]

\* "gameOver == None" for the flag of checkEnd, an int: in Python an int
\* does not equal None.
equals_None(gameOver) == gameOver \notin Int

\* "if gameOver == None": the counter of the turns that reached the story
\* generation of get_story (a correction reply executes on its own).
completed_turns(count, did, gameOver) ==
    IF did.ran /\ did.handler # "correction" /\ equals_None(gameOver) THEN count + 1 ELSE count

\* "if (g["completed_action_turns"] % 2) == 0", inside the same test
suggestion_due(count, did, gameOver) ==
    did.ran /\ did.handler # "correction" /\ equals_None(gameOver) /\ count % 2 = 0

\* The end of get_story: the counter, then the suggestion asked of the
\* Conversation responder.
StoryEnd(did, gameOver) ==
    /\ completed_action_turns' = completed_turns(completed_action_turns, did, gameOver)
    /\ suggestions' = IF suggestion_due(completed_action_turns', did, gameOver)
                      THEN suggestions + 1 ELSE suggestions

Commit(w, snapshots, confirmation, correction, failed_index, choice, from_index, did, applied, confirmed, t) ==
    /\ game_over = 0
    /\ SetWorld(w)
    /\ StoryEnd(did, checkEnd(w))
    /\ pushed_events' = IF undo_snapshots = <<>>
                        THEN event_log(w, snapshots,
                                       ensure_initial_snapshot(undo_snapshots, start_of_turn(W)),
                                       <<event_status(W)>>)
                        ELSE event_log(w, snapshots, undo_snapshots, pushed_events)
    /\ game_over' = IF did.ran THEN checkEnd(w) ELSE 0
    /\ undo_snapshots' = snapshots
    /\ pending_confirmation_action' = confirmation
    /\ pending_correction_actions' = correction
    /\ pending_correction_failed_index' = failed_index
    /\ pending_undo_confirm_choice' = choice
    /\ pending_undo_confirm_from_index' = from_index
    /\ last' = did
    /\ restored' = applied
    /\ correction_confirmed' = confirmed
    /\ turn' = t
    /\ UNCHANGED round_vars

Did(handler, text, actions, ran, risky, confirmed) ==
    [handler |-> handler, text |-> text, actions |-> actions, ran |-> ran, risky |-> risky,
     confirmed |-> confirmed]

\* A failure that opens the correction phase whatever the length of the list.
always_single(player_actions) == FALSE

\* get_story: a rejected list of more than one action is a chain, answered
\* with a retry prompt.
is_chain(player_actions) == Len(player_actions) > 1

\* A turn that opens the correction phase without clearing the action that
\* waited for its confirmation.
confirmation_kept(w, snapshots, player_actions, confirmed, handler, text, rnd) ==
    LET \* the list has been executed and the knowledge refreshed
        executed(done, risky) ==
            Commit(done, push_snapshot(snapshots, serialize_current_state(done)),
                   <<>>, <<>>, -1, 0, 0,
                   Did(handler, text, player_actions, TRUE, risky, confirmed), <<>>, FALSE, turn + 1)
        \* v: what validate_action_sequence returned
        validated(v, risky) ==
            IF v.error # None /\ is_chain(player_actions)
            THEN Commit(v.w, snapshots, <<>>, <<>>, -1, 0, 0,
                        Did(handler, text, player_actions, FALSE, risky, confirmed), <<>>, FALSE, turn + 1)
            ELSE IF v.error # None
            THEN Commit(v.w, snapshots, pending_confirmation_action, player_actions, v.index - 1, 0, 0,
                        Did(handler, text, player_actions, FALSE, risky, confirmed), <<>>, confirmed, turn + 1)
            ELSE executed(refresh_known_state(ExecAll(v.w, player_actions, rnd), player), risky)
        checked(v) == validated(v, needs_confirmation(v.w, player_actions[1]))
    IN  checked(validate_action_sequence(w, player_actions, player))

\* get_story from validate_action_sequence on: a chain that fails is
\* dropped, a single action that fails opens the correction phase, a valid
\* list is executed, the knowledge refreshed and the snapshot saved.
RunTurn(w, snapshots, player_actions, confirmed, handler, text, rnd) ==
    LET \* the list has been executed and the knowledge refreshed
        executed(done, risky) ==
            Commit(done, push_snapshot(snapshots, serialize_current_state(done)),
                   <<>>, <<>>, -1, 0, 0,
                   Did(handler, text, player_actions, TRUE, risky, confirmed), <<>>, FALSE, turn + 1)
        \* v: what validate_action_sequence returned
        validated(v, risky) ==
            IF v.error # None /\ is_chain(player_actions)
            THEN Commit(v.w, snapshots, <<>>, <<>>, -1, 0, 0,
                        Did(handler, text, player_actions, FALSE, risky, confirmed), <<>>, FALSE, turn + 1)
            ELSE IF v.error # None
            THEN Commit(v.w, snapshots, <<>>, player_actions, v.index - 1, 0, 0,
                        Did(handler, text, player_actions, FALSE, risky, confirmed), <<>>, confirmed, turn + 1)
            ELSE executed(refresh_known_state(ExecAll(v.w, player_actions, rnd), player), risky)
        checked(v) == validated(v, needs_confirmation(v.w, player_actions[1]))
    IN  checked(validate_action_sequence(w, player_actions, player))

\* get_story on a command the precheck labels "clear".
PlayerTurn(player_actions, rnd) ==
    /\ NoPending
    /\ turn < MaxTurns
    /\ \E w \in {start_of_turn(W)} :
       \E snapshots \in {ensure_initial_snapshot(undo_snapshots, w)} :
           IF needs_confirmation(w, player_actions[1])
           THEN Commit(w, snapshots, player_actions, <<>>, -1, 0, 0,
                       Did("turn", None, player_actions, FALSE, TRUE, FALSE), <<>>, FALSE, turn)
           ELSE RunTurn(w, snapshots, player_actions, FALSE, "turn", None, rnd)

\* get_story while a risky action waits for its confirmation.
ConfirmReply(ans, rnd) ==
    /\ pending_undo_confirm_choice = 0
    /\ pending_correction_actions = <<>>
    /\ pending_confirmation_action # <<>>
    /\ ContainsYes(ans) => turn < MaxTurns
    /\ \E w \in {start_of_turn(W)} :
       \E snapshots \in {ensure_initial_snapshot(undo_snapshots, w)} :
           IF ContainsYes(ans)
           THEN RunTurn(w, snapshots, pending_confirmation_action, TRUE, "confirm", ans, rnd)
           ELSE Commit(w, snapshots, <<>>, <<>>, -1, 0, 0,
                       Did("confirm", ans, pending_confirmation_action, FALSE, FALSE, FALSE), <<>>, FALSE, turn)

\* get_story in the correction phase: _handle_correction_reply.
CorrectionReply(reply, rnd) ==
    /\ pending_undo_confirm_choice = 0
    /\ pending_correction_actions # <<>>
    /\ ~IsCancelWord(reply.text) /\ reply.patch # <<>> => turn < MaxTurns
    /\ LET idx == IF pending_correction_failed_index < 0
                     \/ pending_correction_failed_index >= Len(pending_correction_actions)
                  THEN 0 ELSE pending_correction_failed_index
           \* v: what validate_action_sequence made of the patched list
           validated(snapshots, actions, v, risky) ==
               IF v.error # None
               THEN Commit(v.w, snapshots, pending_confirmation_action, <<>>, -1, 0, 0,
                           Did("correction", reply.text, actions, FALSE, risky,
                               correction_confirmed),
                           <<>>, FALSE, turn + 1)
               ELSE Commit(ExecAll(v.w, actions, rnd), snapshots, pending_confirmation_action,
                           <<>>, -1, 0, 0,
                           Did("correction", reply.text, actions, TRUE, risky,
                               correction_confirmed),
                           <<>>, FALSE, turn + 1)
           checked(snapshots, actions, v) ==
               validated(snapshots, actions, v, needs_confirmation(v.w, actions[1]))
           patched(w, snapshots, actions) ==
               checked(snapshots, actions, validate_action_sequence(w, actions, player))
       IN  \E w \in {start_of_turn(W)} :
           \E snapshots \in {ensure_initial_snapshot(undo_snapshots, w)} :
               IF IsCancelWord(reply.text)
               THEN Commit(w, snapshots, pending_confirmation_action, <<>>, -1, 0, 0,
                           Did("correction", reply.text, pending_correction_actions, FALSE, FALSE,
                               FALSE), <<>>, FALSE, turn)
               ELSE IF reply.patch = <<>>
               THEN Commit(w, snapshots, pending_confirmation_action, pending_correction_actions,
                           pending_correction_failed_index, 0, 0,
                           Did("correction", reply.text, pending_correction_actions, FALSE, FALSE,
                               FALSE), <<>>,
                           correction_confirmed, turn)
               ELSE patched(w, snapshots,
                            [pending_correction_actions EXCEPT
                                ![idx + 1] = merge_slots(@, reply.patch[1])])

\* get_story on a command the precheck labels "undo": AIundo picks the
\* snapshot (0 or less: cancelled), and the player is asked to confirm.
UndoRequest(picked) ==
    /\ NoPending
    /\ \E w \in {start_of_turn(W)} :
       \E snapshots \in {ensure_initial_snapshot(undo_snapshots, w)} :
       LET n == Len(snapshots)
           choice == IF picked >= n THEN n - 1 ELSE picked
       IN  IF n < 2 \/ picked <= 0
           THEN Commit(w, snapshots, <<>>, <<>>, -1, 0, 0,
                       Did("undo", None, <<>>, FALSE, FALSE, FALSE), <<>>, FALSE, turn)
           ELSE Commit(w, snapshots, <<>>, <<>>, -1, choice, n,
                       Did("undo", None, <<>>, FALSE, FALSE, FALSE), <<>>, FALSE, turn)

\* get_story while an undo waits for its confirmation: on yes the chosen
\* snapshot is applied and the stack cut back to it.
UndoReply(ans) ==
    /\ pending_undo_confirm_choice # 0
    /\ \E w \in {start_of_turn(W)} :
       \E snapshots \in {ensure_initial_snapshot(undo_snapshots, w)} :
       LET n == Len(snapshots)
           capped == IF pending_undo_confirm_choice > n - 1 THEN n - 1
                     ELSE pending_undo_confirm_choice
           to_idx == IF capped < 1 THEN 1 ELSE capped
           state_dict == snapshots[to_idx]
           reverted == refresh_known_state(apply_game_state_dict(w, state_dict), player)
       IN  IF is_yes(ans) /\ n >= 2
           THEN Commit(reverted, SubSeq(snapshots, 1, to_idx),
                       pending_confirmation_action, pending_correction_actions,
                       pending_correction_failed_index, 0, 0,
                       Did("undo_reply", ans, <<>>, FALSE, FALSE, FALSE), <<state_dict>>,
                       correction_confirmed, turn)
           ELSE Commit(w, snapshots,
                       pending_confirmation_action, pending_correction_actions,
                       pending_correction_failed_index, 0, 0,
                       Did("undo_reply", ans, <<>>, FALSE, FALSE, FALSE), <<>>,
                       correction_confirmed, turn)

\* get_story on a text the precheck hands to the conversation: only the
\* start of the turn happens.
Conversation ==
    /\ NoPending
    /\ \E w \in {start_of_turn(W)} :
           Commit(w, ensure_initial_snapshot(undo_snapshots, w), <<>>, <<>>, -1, 0, 0,
                  Did("conversation", None, <<>>, FALSE, FALSE, FALSE), <<>>, FALSE, turn)

Next ==
    \/ \E player_actions \in PlayerInputs, rnd \in 0..MaxRnd : PlayerTurn(player_actions, rnd) /\ UNCHANGED loop_vars
    \/ \E ans \in Replies, rnd \in 0..MaxRnd : ConfirmReply(ans, rnd) /\ UNCHANGED loop_vars
    \/ \E reply \in CorrectionReplies, rnd \in 0..MaxRnd : CorrectionReply(reply, rnd) /\ UNCHANGED loop_vars
    \/ \E picked \in 0..MaxTurns : UndoRequest(picked) /\ UNCHANGED loop_vars
    \/ \E ans \in Replies : UndoReply(ans) /\ UNCHANGED loop_vars
    \/ Conversation /\ UNCHANGED loop_vars

Spec == Init /\ [][Next]_vars

(***************************************************************************)
(* Properties of the turn pipeline.                                        *)
(***************************************************************************)
\* C1: after an undo has applied a snapshot S, serializing the world gives
\* a document equal to S.
UndoFaithful ==
    restored # <<>> => SameState(serialize_current_state(W), restored[1])

\* The blockade of the Storage Room-Pharmacy link is the first event.
BlockadeUnresolved == ~events[1].is_resolved

Crossed(c) ==
    \/ current_area[c] = storage_room /\ current_area'[c] = pharmacy
    \/ current_area[c] = pharmacy /\ current_area'[c] = storage_room

\* C2: while the blockade is unresolved, validate_movement(Storage Room,
\* Pharmacy) returns a blocking description, and no step that leaves it
\* unresolved takes a character across the link.
BlockadeHolds ==
    /\ [](BlockadeUnresolved => validate_movement(W, storage_room, pharmacy) # None)
    /\ [][BlockadeUnresolved' => \A c \in Chars : ~Crossed(c)]_vars

\* A move into the Pharmacy was executed from the Storage Room while the
\* blockade stood, and the player is still in the Storage Room.
BlockadeHoldsWitness ==
    /\ BlockadeUnresolved
    /\ last.ran
    /\ last.actions = <<Move(storage_room), Move(pharmacy)>>
    /\ current_area[player] = storage_room

\* C3: an action list is executed only if its first action is not risky or
\* the player answered yes to the confirmation prompt for that list.
ConfirmationGate ==
    last.ran => (~last.risky \/ last.confirmed)

\* C4: a reply "no" or "cancel" to a pending question clears all pending
\* state, executes nothing, and leaves the world and the undo stack as they
\* were.
CancelIsNoOp ==
    [][(last'.text \in {"no", "cancel"} /\ ~NoPending) =>
          (NoPending' /\ ~last'.ran /\ W' = W /\ undo_snapshots' = undo_snapshots)]_vars

\* A risky action was declined after at least one turn had changed the
\* world.
CancelIsNoOpWitness ==
    /\ last.handler = "confirm"
    /\ last.text = "no"
    /\ Len(undo_snapshots) > 1

\* C7: validate_action_sequence leaves every character's current_area,
\* inventory and party and every area's key_items as they were.
ValidationPure ==
    \A player_actions \in PlayerInputs :
        \E v \in {validate_action_sequence(W, player_actions, player)} :
            /\ v.w.current_area = current_area
            /\ v.w.inventory = inventory
            /\ v.w.party = party
            /\ v.w.key_items = key_items

\* A chain whose phantom effects moved the player and emptied a floor has
\* been validated and executed.
ValidationPureWitness ==
    /\ last.ran
    /\ \E player_actions \in PlayerInputs :
          \E r \in {ValidateFrom([w |-> W, snapshot |-> EmptySnapshot(W)],
                                 player_actions, 1, player)} :
              /\ r.ps.snapshot.chars # {}
              /\ r.ps.snapshot.areas # {}
              /\ r.ps.w.inventory # inventory

\* C8: every item has exactly one of position and holder set, and an
\* equipped item has a holder.
ItemPlacement ==
    \A it \in Items :
        /\ (position[it] # None) # (holder[it] # None)
        /\ is_equipped[it] => holder[it] # None

\* C9: every character listed in an area's characters has that area as its
\* current_area.
AreaMembership ==
    \A a \in Areas : \A c \in Range(characters[a]) : current_area[c] = a

\* A party member was relocated with the player and an undo was applied.
AreaMembershipWitness ==
    /\ restored # <<>>
    /\ InSeq(kenny, characters[storage_room])
    /\ InSeq(player, characters[storage_room])

\* C10: B is in A's party if and only if A is in B's party, and nobody is
\* in their own party.
PartySymmetric ==
    \A a \in Chars : \A b \in Chars :
        /\ InSeq(b, party[a]) <=> InSeq(a, party[b])
        /\ ~InSeq(a, party[a])

(***************************************************************************)
(* The round scheduler (turnHandler.py).  Steps are queued through the     *)
(* module's queue functions, then run_one_round consumes them; each        *)
(* iteration of its for loop is one step of the model.                     *)
(***************************************************************************)
MaxRounds == 1

\* The names in string order, the second component of the sort key.
NameOrder == <<carley, zombie3, kenny, larry, player>>

\* An order that looks at the names only.
name_before(a, b) == IndexOf(a, NameOrder) < IndexOf(b, NameOrder)

\* The sort key (-speed, name) of _sorted_actors: a sorts before b.
key_before(a, b) ==
    \/ Speed(a) > Speed(b)
    \/ Speed(a) = Speed(b) /\ IndexOf(a, NameOrder) < IndexOf(b, NameOrder)

\* sorted(actors, key=key)
RECURSIVE SortActors(_)
SortActors(actors) ==
    IF actors = {} THEN <<>>
    ELSE
    LET then(first) == <<first>> \o SortActors(actors \ {first})
    IN  then(CHOOSE a \in actors : \A b \in actors \ {a} : key_before(a, b))

\* ActionPlan.has_next
has_next(plan) == plan.cursor < Len(plan.steps)

\* TurnHandler._sorted_actors
sorted_actors(w) == SortActors({a \in Chars : has_next(w.plans[a])})

\* TurnHandler._partners_from_step
partners_from_step(step) == {step.target, step.second_target} \ {None}

\* TurnHandler._same_party
same_party(w, a, b) == InSeq(b, w.party[a]) \/ InSeq(a, w.party[b])

\* A rule A that never interrupts.
never_interrupted(actor_current_partners, partners) == FALSE

\* Rule A of run_one_round: the actor is engaged and its step involves none
\* of its counterparts.
interrupted(actor_current_partners, partners) ==
    actor_current_partners # {} /\ partners \cap actor_current_partners = {}

\* Rule B of run_one_round: a partner is engaged with others, the actor is
\* not among them and is in no party with any of them.
blocked(w, engaged, actor, partners) ==
    \E p \in partners :
        /\ engaged[p] # {}
        /\ actor \notin engaged[p]
        /\ ~\E eng \in engaged[p] : same_party(w, actor, eng)

\* mark_engaged for every partner of the step
mark_engaged(engaged, actor, partners) ==
    [c \in Chars |->
        IF c = actor THEN engaged[c] \cup partners
        ELSE IF c \in partners THEN engaged[c] \cup {actor}
        ELSE engaged[c]]

\* _consume_step, the plan part
consume_step(w, actor) == [w EXCEPT !.plans[actor].cursor = Len(w.plans[actor].steps)]

\* The steps the controllers queue.
RoundSteps == {Harm(larry), Harm(player), Harm(carley), DoNothing}

RoundActors == {player, kenny, carley, larry}

\* The (owner, step) pairs handed to queue_step: every step for every
\* survivor, and the harm steps exchanged with the zombie.
RoundQueue ==
    (RoundActors \X RoundSteps)
        \cup ({player, kenny} \X {Harm(zombie3)})
        \cup ({zombie3} \X {Harm(player)})

\* The worlds a round starts from: the scenario as set up, after Kenny has
\* joined Lee's party, after Carley has joined as well, and after Lee, with
\* Kenny in his party, has moved to the storage room, where the zombie is.
JoinedKenny == process_join_party_action(InitialWorld, kenny, player)

EnteredStorage == activate_action(JoinedKenny, Move(storage_room), player, 0)

RoundWorlds ==
    {InitialWorld, JoinedKenny, process_join_party_action(JoinedKenny, carley, player),
     EnteredStorage}

InitRound ==
    /\ \E w \in RoundWorlds :
          /\ current_area = w.current_area
          /\ characters = w.characters
          /\ key_items = w.key_items
          /\ inventory = w.inventory
          /\ equipment = w.equipment
          /\ weapon = w.weapon
          /\ party = w.party
          /\ friendships = w.friendships
          /\ health = w.health
          /\ is_alive = w.is_alive
          /\ holder = w.holder
          /\ position = w.position
          /\ is_equipped = w.is_equipped
          /\ known_by = w.known_by
          /\ events = w.events
          /\ active_events = w.active_events
          /\ area_events = w.area_events
          /\ plans = w.plans
    /\ undo_snapshots = <<>>
    /\ pending_confirmation_action = <<>>
    /\ pending_correction_actions = <<>>
    /\ pending_correction_failed_index = -1
    /\ pending_undo_confirm_choice = 0
    /\ pending_undo_confirm_from_index = 0
    /\ last = Idle
    /\ restored = <<>>
    /\ correction_confirmed = FALSE
    /\ turn = 0
    /\ game_over = 0
    /\ pushed_events = <<>>
    /\ completed_action_turns = 0
    /\ suggestions = 0
    /\ round = 1
    /\ phase = "idle"
    /\ engaged_with = [c \in Chars |-> {}]
    /\ processed = {}
    /\ scan = <<>>
    /\ progressed = FALSE
    /\ pass = 0
    /\ attempts = <<>>
    /\ LoopStart

\* queue_step, called between rounds
QueueStep(owner, step) ==
    /\ phase = "idle"
    /\ round <= MaxRounds
    /\ SetWorld(queue_step(W, owner, step, "controller"))
    /\ UNCHANGED <<pipeline_vars, history_vars, round_vars>>

\* run_one_round up to the first pass of its while loop
BeginRound ==
    /\ phase = "idle"
    /\ round <= MaxRounds
    /\ phase' = "scan"
    /\ engaged_with' = [c \in Chars |-> {}]
    /\ processed' = {}
    /\ pass' = 1
    /\ scan' = sorted_actors(W)
    /\ progressed' = FALSE
    /\ attempts' = <<>>
    /\ UNCHANGED <<world_vars, pipeline_vars, history_vars, round>>

Attempt(actor, step, origin, outcome, engaged) ==
    [actor |-> actor, pass |-> pass, origin |-> origin, outcome |-> outcome,
     partners |-> partners_from_step(step), engaged |-> engaged]

\* A scan that never skips an actor.
never_processed(actor, done) == FALSE

\* "if actor in processed: continue"
already_processed(actor, done) == actor \in done

\* One iteration of "for actor in self._sorted_actors()".
ScanStep(rnd) ==
    /\ phase = "scan"
    /\ scan # <<>>
    /\ scan' = Tail(scan)
    /\ LET actor == Head(scan)
           plan == plans[actor]
           actor_current_partners == engaged_with[actor]
           \* the step is consumed whatever became of it
           consume(step, partners, outcome) ==
               /\ SetWorld(consume_step(
                      IF outcome = "executed"
                      THEN check_for_event_triggers_after_action(
                               activate_action(W, step, actor, rnd), actor)
                      ELSE W, actor))
               /\ engaged_with' = IF outcome = "executed"
                                   THEN mark_engaged(engaged_with, actor, partners)
                                   ELSE engaged_with
               /\ processed' = processed \cup {actor}
               /\ progressed' = TRUE
               /\ attempts' = Append(attempts,
                                     Attempt(actor, step, plan.origin, outcome,
                                             actor_current_partners))
           \* rule A, rule B, validation
           judge(step, partners) ==
               consume(step, partners,
                       IF interrupted(actor_current_partners, partners) THEN "interrupted"
                       ELSE IF blocked(W, engaged_with, actor, partners) THEN "blocked"
                       ELSE IF validate_action(W, step, actor) # None THEN "invalid"
                       ELSE "executed")
           attempt(step) == judge(step, partners_from_step(step))
       IN  IF already_processed(actor, processed)
           THEN UNCHANGED <<world_vars, engaged_with, processed, progressed, attempts>>
           ELSE IF ~has_next(plan)
           THEN /\ processed' = processed \cup {actor}
                /\ UNCHANGED <<world_vars, engaged_with, progressed, attempts>>
           ELSE attempt(plan.steps[plan.cursor + 1])
    /\ UNCHANGED <<pipeline_vars, history_vars, round, phase, pass>>

\* A while loop that stops after the pass that consumed a step.
single_pass ==
    /\ phase = "scan"
    /\ scan = <<>>
    /\ progressed
    /\ SetWorld([W EXCEPT !.plans = [c \in Chars |-> NoPlan]])
    /\ round' = round + 1
    /\ phase' = "idle"
    /\ UNCHANGED <<pipeline_vars, history_vars, engaged_with, processed, scan, progressed,
                   pass, attempts>>

\* The end of a pass that consumed a step: the while loop scans again.
NextPass ==
    /\ phase = "scan"
    /\ scan = <<>>
    /\ progressed
    /\ pass' = pass + 1
    /\ scan' = sorted_actors(W)
    /\ progressed' = FALSE
    /\ UNCHANGED <<world_vars, pipeline_vars, history_vars, round, phase, engaged_with,
                   processed, attempts>>

\* A round that is over only when no actor has a step left.
end_when_drained ==
    /\ phase = "scan"
    /\ scan = <<>>
    /\ ~progressed
    /\ sorted_actors(W) = <<>>
    /\ SetWorld([W EXCEPT !.plans = [c \in Chars |-> NoPlan]])
    /\ round' = round + 1
    /\ phase' = "idle"
    /\ UNCHANGED <<pipeline_vars, history_vars, engaged_with, processed, scan, progressed,
                   pass, attempts>>

\* The end of a pass that consumed nothing: the plans are cleared and the
\* round is over.
EndRound ==
    /\ phase = "scan"
    /\ scan = <<>>
    /\ ~progressed
    /\ SetWorld([W EXCEPT !.plans = [c \in Chars |-> NoPlan]])
    /\ round' = round + 1
    /\ phase' = "idle"
    /\ UNCHANGED <<pipeline_vars, history_vars, engaged_with, processed, scan, progressed,
                   pass, attempts>>

NextRound ==
    \/ \E q \in RoundQueue : QueueStep(q[1], q[2]) /\ UNCHANGED loop_vars
    \/ BeginRound /\ UNCHANGED loop_vars
    \/ \E rnd \in 0..MaxRnd : ScanStep(rnd) /\ UNCHANGED loop_vars
    \/ NextPass /\ UNCHANGED loop_vars
    \/ EndRound /\ UNCHANGED loop_vars

SpecRound == InitRound /\ [][NextRound]_vars

\* The actors whose earlier executed steps of this round had the actor of
\* attempt j as target or second target.
Engagers(j) ==
    {attempts[i].actor : i \in {k \in 1..(j - 1) :
        /\ attempts[k].outcome = "executed"
        /\ attempts[j].actor \in attempts[k].partners}}

\* C5 as stated: of two actors with a step attempted in the round, the
\* faster one's step is attempted first, steps queued by a cascade during
\* the round included.
RoundOrderAllSteps ==
    \A i, j \in DOMAIN attempts :
        Speed(attempts[i].actor) > Speed(attempts[j].actor) => i < j

\* C5 amended: the passes of a round follow one another, and within one
\* pass the steps are attempted from the fastest actor to the slowest; a
\* step queued by a cascade for an actor that had none is attempted in a
\* later pass than the step that queued it, whatever its actor's speed.
PassOrder ==
    \A i, j \in DOMAIN attempts :
        i < j =>
            /\ attempts[i].pass <= attempts[j].pass
            /\ attempts[i].pass = attempts[j].pass =>
                   Speed(attempts[i].actor) >= Speed(attempts[j].actor)

\* A round in which two actors of different speeds were attempted in one
\* pass and a cascaded step of a faster actor was attempted in a later pass.
PassOrderWitness ==
    \E i, j, k \in DOMAIN attempts :
        /\ i < j /\ j < k
        /\ attempts[i].pass = attempts[j].pass
        /\ Speed(attempts[i].actor) > Speed(attempts[j].actor)
        /\ attempts[k].pass > attempts[j].pass
        /\ attempts[k].origin = "group-join"
        /\ Speed(attempts[k].actor) > Speed(attempts[j].actor)

\* C6 as stated: once an executed step of A had B as target or second
\* target, a later step of B in the round is executed only if A is among
\* its targets, and is otherwise consumed as interrupted.
EngagementEveryCounterpart ==
    \A j \in DOMAIN attempts :
        \A a \in Engagers(j) :
            /\ attempts[j].outcome = "executed" => a \in attempts[j].partners
            /\ a \notin attempts[j].partners => attempts[j].outcome = "interrupted"

\* C6 amended: once executed steps of other actors had B as target or
\* second target, a later step of B in the round is executed only if at
\* least one of those actors is among its targets; if none is, the step is
\* consumed as interrupted.
EngagementSomeCounterpart ==
    \A j \in DOMAIN attempts :
        Engagers(j) # {} =>
            /\ attempts[j].engaged = Engagers(j)
            /\ attempts[j].outcome = "executed" =>
                   attempts[j].partners \cap Engagers(j) # {}
            /\ attempts[j].partners \cap Engagers(j) = {} =>
                   attempts[j].outcome = "interrupted"

\* A round in which one engaged actor answered a counterpart and another
\* engaged actor's step was interrupted.
EngagementSomeCounterpartWitness ==
    \E i, j \in DOMAIN attempts :
        /\ Engagers(i) # {}
        /\ attempts[i].outcome = "executed"
        /\ Engagers(j) # {}
        /\ attempts[j].outcome = "interrupted"

(***************************************************************************)
(* Further properties of the turn pipeline.                                *)
(***************************************************************************)
\* C11: every stored friendship is in 0..10, and a friendship of 0 is still
\* 0 after every turn that executes actions.
FriendshipBounded ==
    /\ [](\A c, d \in Chars : friendships[c][d] \in 0..MaxFriendship)
    /\ [][last'.ran =>
            \A c, d \in Chars : friendships[c][d] = 0 => friendships'[c][d] = 0]_vars

\* The zombie, whose friendship toward the player is 0, has just been
\* searched by the player.
FriendshipBoundedWitness ==
    /\ last.ran
    /\ last.actions = <<Act("search", None, zombie3, None, None, None)>>
    /\ is_alive[zombie3]
    /\ friendships[zombie3][player] = 0

\* C12: the undo stack only grows at its end, its entries staying as they
\* are, except in a confirmed undo, which cuts it back to the chosen index
\* k, 1 <= k < its length, and leaves entries 1..k as they are.
UndoStackDiscipline ==
    [][\/ /\ Len(undo_snapshots') >= Len(undo_snapshots)
          /\ SubSeq(undo_snapshots', 1, Len(undo_snapshots)) = undo_snapshots
       \/ /\ last'.handler = "undo_reply"
          /\ is_yes(last'.text)
          /\ pending_undo_confirm_choice \in 1..(Len(undo_snapshots) - 1)
          /\ undo_snapshots' = SubSeq(undo_snapshots, 1, pending_undo_confirm_choice)]_vars

\* A confirmed undo has cut a stack of three snapshots back to the second.
UndoStackDisciplineWitness ==
    /\ restored # <<>>
    /\ last.handler = "undo_reply"
    /\ Len(undo_snapshots) = 2

\* The single commands of the player.
SingleActions == {p[1] : p \in {l \in PlayerInputs : Len(l) = 1}}

\* C13: whenever validate_action accepts a single action of the player in
\* the current world, activate_action returns a non-empty narration for it.
ValidatedActionNarrates ==
    \A a \in SingleActions :
        validate_action(W, a, player) = None => activate_action_narrates(W, a, player)

\* A list with a use_item of the Fire Axe, by the player or by a character
\* the player asks.
UsesAxe(actions) ==
    \E i \in DOMAIN actions :
        /\ actions[i].item = fire_axe
        /\ \/ actions[i].action = "use_item"
           \/ actions[i].action = "ask_action" /\ actions[i].requested_action = "use_item"

\* C14: the blockade is resolved exactly by a use_item of the Fire Axe by an
\* actor whose inventory holds it: while it stands, process_use_item_action
\* resolves it (not active, not blocking, resolved, the link open both ways)
\* for the holder of the axe and for nobody and nothing else; only a turn
\* that executes such a use_item resolves it; once resolved it stays
\* resolved and the link between Storage Room and Pharmacy is open.
BlockadeResolution ==
    /\ [](BlockadeUnresolved =>
            \A c \in Chars : \A it \in Items :
                \E w2 \in {process_use_item_action(W, it, c, None)} :
                    /\ w2.events[1].is_resolved <=> (it = fire_axe /\ InSeq(it, inventory[c]))
                    /\ w2.events[1].is_resolved =>
                          /\ ~w2.events[1].is_active
                          /\ ~w2.events[1].is_blocking
                          /\ validate_movement(w2, storage_room, pharmacy) = None
                          /\ validate_movement(w2, pharmacy, storage_room) = None)
    /\ [](~BlockadeUnresolved =>
            /\ ~events[1].is_active
            /\ ~events[1].is_blocking
            /\ validate_movement(W, storage_room, pharmacy) = None
            /\ validate_movement(W, pharmacy, storage_room) = None)
    /\ [][BlockadeUnresolved /\ ~BlockadeUnresolved' => last'.ran /\ UsesAxe(last'.actions)]_vars
    /\ [][BlockadeUnresolved /\ last'.ran /\ last'.actions = <<UseItem(fire_axe, None)>>
            => (~BlockadeUnresolved' <=> InSeq(fire_axe, inventory[player]))]_vars
    /\ [][~BlockadeUnresolved => ~BlockadeUnresolved']_vars

\* The player has walked from the Storage Room into the Pharmacy after the
\* blockade was resolved.
BlockadeResolutionWitness ==
    /\ ~BlockadeUnresolved
    /\ last.ran
    /\ last.actions = <<Move(pharmacy)>>
    /\ current_area[player] = pharmacy

\* C15: an event is in the manager's active_events and in the active_events
\* of its anchor area exactly when it is active.
EventListing ==
    \A e \in DOMAIN events :
        /\ InSeq(e, active_events) <=> events[e].is_active
        /\ InSeq(e, area_events[events[e].location]) <=> events[e].is_active

\* A step of get_story that reached validate_action_sequence with the
\* parsed list (directly or after the player's yes) and did not execute it.
RejectedStep ==
    /\ last'.handler \in {"turn", "confirm"}
    /\ turn' = turn + 1
    /\ ~last'.ran

\* C16: when validate_action_sequence rejects the parsed list, nothing of
\* it is executed; a list of one action is stored as the pending correction
\* with the failed index, a longer list leaves no pending state.
RejectionHandling ==
    /\ [][last'.handler \in {"turn", "confirm"} /\ turn' = turn + 1 =>
            (last'.ran <=>
                validate_action_sequence(start_of_turn(W), last'.actions, player).error = None)]_vars
    /\ [][RejectedStep =>
            /\ W' = W
            /\ pending_undo_confirm_choice' = 0
            /\ pending_confirmation_action' = <<>>
            /\ Len(last'.actions) = 1 =>
                  /\ pending_correction_actions' = last'.actions
                  /\ pending_correction_failed_index' = 0
            /\ Len(last'.actions) > 1 => NoPending']_vars

\* A single action was rejected and waits for its correction, after at
\* least one turn had changed the world.
RejectionHandlingWitness ==
    /\ last.handler = "turn"
    /\ ~last.ran
    /\ Len(last.actions) = 1
    /\ pending_correction_actions = last.actions
    /\ pending_correction_failed_index = 0
    /\ Len(undo_snapshots) > 1

(***************************************************************************)
(* The undo whose apply fails.  apply_game_state_dict runs inside one try: *)
(* an exception anywhere in it is caught and False returned, with whatever *)
(* the steps before it have written left in place.  get_story turns the    *)
(* False into an exception of its own and handles it by clearing the       *)
(* pending undo.                                                           *)
(***************************************************************************)
\* Where the exception strikes: before anything is written, or after the
\* placement has been cleared.
FaultPoints == {"before", "cleared"}

\* apply_game_state_dict up to the exception.
apply_interrupted(w, point) ==
    LET cleared(collected) ==
            clear_placement(w, Range(collected), Range(collect_items(w, collected)))
    IN  IF point = "before" THEN w ELSE cleared(collect_characters(w))

\* get_story while an undo waits for its confirmation, the player says yes
\* and apply_game_state_dict returns False: the except branch.
UndoReplyFails(ans, point) ==
    /\ pending_undo_confirm_choice # 0
    /\ is_yes(ans)
    /\ \E w \in {start_of_turn(W)} :
       \E snapshots \in {ensure_initial_snapshot(undo_snapshots, w)} :
           /\ Len(snapshots) >= 2
           /\ Commit(apply_interrupted(w, point), snapshots,
                     pending_confirmation_action, pending_correction_actions,
                     pending_correction_failed_index, 0, 0,
                     Did("undo_failed", ans, <<>>, FALSE, FALSE, FALSE), <<>>,
                     correction_confirmed, turn)

NextFault ==
    \/ Next
    \/ \E ans \in Replies, point \in FaultPoints : UndoReplyFails(ans, point) /\ UNCHANGED loop_vars

SpecFault == Init /\ [][NextFault]_vars

Waiting(c) ==
    /\ phase = "scan"
    /\ c \notin processed
    /\ has_next(plans[c])
    /\ plans[c].origin \in {"group-join", "group-move"}

\* The step that waits for c is attempted in this step of the round.
AttemptedNow(c) ==
    /\ c \in processed'
    /\ Len(attempts') = Len(attempts) + 1
    /\ attempts'[Len(attempts')].actor = c
    /\ attempts'[Len(attempts')].origin = plans[c].origin
    /\ attempts'[Len(attempts')].partners = partners_from_step(plans[c].steps[plans[c].cursor + 1])

\* C18 as stated: a step a cascade has queued for an actor not yet processed
\* stays queued until it is attempted, and the round does not end before.
CascadeStepAttempted ==
    /\ [](phase = "scan" /\ scan = <<>> /\ ~progressed => \A c \in Chars : ~Waiting(c))
    /\ [][\A c \in Chars : Waiting(c) => (plans'[c] = plans[c] /\ phase' = "scan") \/ AttemptedNow(c)]_vars

\* C18 amended: an actor not yet processed for whom a cascade has queued a
\* step keeps a cascaded step (the one queued last: a later cascade
\* replaces the plan) until that step is attempted, and the round does not
\* end before.
CascadeActorAttempted ==
    /\ [](phase = "scan" /\ scan = <<>> /\ ~progressed => \A c \in Chars : ~Waiting(c))
    /\ [][\A c \in Chars : Waiting(c) => Waiting(c)' \/ AttemptedNow(c)]_vars

\* A step queued by a harm's cascade was executed in a later pass of the
\* round, and the round is over.
CascadeActorAttemptedWitness ==
    /\ phase = "idle"
    /\ \E k \in DOMAIN attempts :
          /\ attempts[k].origin = "group-join"
          /\ attempts[k].pass > 1
          /\ attempts[k].outcome = "executed"

(***************************************************************************)
(* Further properties of the turn pipeline: harm and the end of the game.  *)
(***************************************************************************)
\* C19: after a harm of the player that landed on a victim whose friendship
\* toward the player was above 0, the victim's friendship toward the player
\* is 0.
HarmZeroesFriendship ==
    [][\A v \in Chars :
          (/\ last'.ran
           /\ last'.actions = <<Harm(v)>>
           /\ health'[v] < health[v]
           /\ friendships[v][player] > 0)
          => friendships'[v][player] = 0]_vars

(***************************************************************************)
(* The end of the game.  The First Aid Kit lies in the Pharmacy, behind    *)
(* the blockade: the turns below bring the player to it, and the           *)
(* specification starts where they end, with the undo stack they built.    *)
(***************************************************************************)
\* The world after a turn that executed the list.
Played(w, player_actions) ==
    refresh_known_state(ExecAll(start_of_turn(w), player_actions, 0), player)

InStorage == Played(InitialWorld, <<Move(storage_room)>>)

BlockadeCleared == Played(InStorage, <<PickUp(fire_axe), UseItem(fire_axe, None)>>)

InPharmacy == Played(BlockadeCleared, <<Move(pharmacy)>>)

\* The undo stack after the three turns.
PharmacySnapshots ==
    push_snapshot(push_snapshot(push_snapshot(
        <<serialize_current_state(start_of_turn(InitialWorld))>>,
        serialize_current_state(InStorage)),
        serialize_current_state(BlockadeCleared)),
        serialize_current_state(InPharmacy))

InitEnd ==
    /\ \E w \in {InPharmacy} :
          /\ current_area = w.current_area
          /\ characters = w.characters
          /\ key_items = w.key_items
          /\ inventory = w.inventory
          /\ equipment = w.equipment
          /\ weapon = w.weapon
          /\ party = w.party
          /\ friendships = w.friendships
          /\ health = w.health
          /\ is_alive = w.is_alive
          /\ holder = w.holder
          /\ position = w.position
          /\ is_equipped = w.is_equipped
          /\ known_by = w.known_by
          /\ events = w.events
          /\ active_events = w.active_events
          /\ area_events = w.area_events
          /\ plans = w.plans
    /\ undo_snapshots = PharmacySnapshots
    /\ pending_confirmation_action = <<>>
    /\ pending_correction_actions = <<>>
    /\ pending_correction_failed_index = -1
    /\ pending_undo_confirm_choice = 0
    /\ pending_undo_confirm_from_index = 0
    /\ last = Idle
    /\ restored = <<>>
    /\ correction_confirmed = FALSE
    /\ turn = 0
    /\ game_over = 0
    /\ pushed_events = <<event_status(InitialWorld), event_status(InStorage),
                        event_status(BlockadeCleared), event_status(InPharmacy)>>
    /\ completed_action_turns = 0
    /\ suggestions = 0
    /\ round = 1
    /\ phase = "idle"
    /\ engaged_with = [c \in Chars |-> {}]
    /\ processed = {}
    /\ scan = <<>>
    /\ progressed = FALSE
    /\ pass = 0
    /\ attempts = <<>>
    /\ LoopStart

\* The commands of the player at the end of the game.
EndInputs ==
    { <<PickUp(first_aid_kit)>>,
      <<Move(main_store)>>,
      <<PickUp(first_aid_kit), Move(main_store)>>,
      <<UseItem(first_aid_kit, larry)>>,
      <<UseItem(first_aid_kit, player)>>,
      <<UseItem(first_aid_kit, larry), AskHarm(carley, None)>>,
      <<AskHarm(carley, None)>>,
      <<Harm(None)>>,
      <<Harm(kenny)>>,
      <<Move(storage_room)>>,
      <<Act("drop_item", None, None, None, first_aid_kit, None)>>,
      <<JoinParty(kenny)>>,
      <<DoNothing>> }

NextEnd ==
    \/ \E player_actions \in EndInputs, rnd \in 0..MaxRnd : PlayerTurn(player_actions, rnd) /\ UNCHANGED loop_vars
    \/ \E ans \in Replies, rnd \in 0..MaxRnd : ConfirmReply(ans, rnd) /\ UNCHANGED loop_vars
    \/ \E reply \in CorrectionReplies, rnd \in 0..MaxRnd : CorrectionReply(reply, rnd) /\ UNCHANGED loop_vars
    \/ \E picked \in 0..MaxTurns : UndoRequest(picked) /\ UNCHANGED loop_vars
    \/ \E ans \in Replies : UndoReply(ans) /\ UNCHANGED loop_vars
    \/ Conversation /\ UNCHANGED loop_vars

SpecEnd == InitEnd /\ [][NextEnd]_vars

\* C20: after a call of get_story that executed actions the flag is the
\* loss flag when the player's health is 0, otherwise the win flag when the
\* player is far away or Larry's health is at least the threshold, otherwise
\* the continue flag; a call that executed nothing returns the continue
\* flag.
EndFlag ==
    /\ last.ran /\ health[player] = 0 => game_over = 1
    /\ last.ran /\ health[player] # 0
          /\ (current_area[player] = far_away \/ health[larry] >= WinThreshold) => game_over = 2
    /\ last.ran /\ health[player] # 0
          /\ current_area[player] # far_away /\ health[larry] < WinThreshold => game_over = 0
    /\ ~last.ran => game_over = 0

\* Larry was healed and the player killed in one turn: the game is lost.
EndFlagWitness ==
    /\ last.ran
    /\ health[player] = 0
    /\ health[larry] >= WinThreshold
    /\ game_over = 1

(***************************************************************************)
(* Further properties of a round.                                          *)
(***************************************************************************)
\* The attempt the step being taken has logged.
Logged == attempts'[Len(attempts')]

\* A partner of the logged step was engaged with an actor other than c
\* that is in no party with c.
StrangerEngaged(c) ==
    \E p \in Logged.partners :
        \E x \in engaged_with[p] : x # c /\ x # p /\ ~same_party(W, c, x)

\* C23: a step whose target or second target is engaged with an actor
\* other than the step's actor and outside the actor's party is neither
\* validated nor executed: it is consumed as blocked (or, by the rule that
\* comes first, as interrupted), whatever else the partner is engaged with.
StrangerBlocks ==
    [][(Len(attempts') > Len(attempts) /\ StrangerEngaged(Logged.actor))
          => Logged.outcome \in {"blocked", "interrupted"}]_vars

\* C24: in one run_one_round no actor has more than one step attempted,
\* also when a cascade queues a new step for an actor whose step was
\* consumed.
OneAttemptPerActor ==
    \A i, j \in DOMAIN attempts : attempts[i].actor = attempts[j].actor => i = j

\* The while loop is about to end, and an actor whose step was attempted
\* holds a step that a cascade queued afterwards.
OneAttemptPerActorWitness ==
    /\ phase = "scan" /\ scan = <<>> /\ ~progressed
    /\ \E i \in DOMAIN attempts :
          /\ has_next(plans[attempts[i].actor])
          /\ plans[attempts[i].actor].origin \in {"group-join", "group-move"}
          /\ attempts[i].origin = "controller"

(***************************************************************************)
(* Further properties of the snapshots.                                    *)
(***************************************************************************)
\* C21: in every reachable world, serializing, applying the document and
\* serializing again gives a document equal to the first.
SnapshotRoundTrip ==
    SameState(serialize_current_state(apply_game_state_dict(W, serialize_current_state(W))),
              serialize_current_state(W))

\* C25: after a confirmed undo to snapshot k every event that existed when
\* snapshot k was pushed is active, and resolved, exactly if it was then;
\* so the blockade between Storage Room and Pharmacy blocks after the undo
\* exactly if it blocked when the snapshot was pushed.
UndoRestoresEvents ==
    restored # <<>> =>
        \A e \in DOMAIN pushed_events[Len(undo_snapshots)] :
            /\ events[e].is_active = pushed_events[Len(undo_snapshots)][e].is_active
            /\ events[e].is_resolved = pushed_events[Len(undo_snapshots)][e].is_resolved

(***************************************************************************)
(* The command-line loop (Dnd tryout user testing/main.py): the main       *)
(* thread reads a line and calls get_story; the idle watcher thread nudges *)
(* the player through AIconversation.  Every statement that reads or       *)
(* writes a shared name is a step of its own.  Time is counted in units of *)
(* the first reminder and runs while the prompt waits for a line.          *)
(***************************************************************************)
IDLE_FIRST_REMINDER == 1

IDLE_SECOND_REMINDER == 2

\* What the player types at the prompt: a command, "quit", or end of file.
Lines == {"text", "quit", "eof"}

\* The commands get_story receives from the loop.
LoopInputs == { <<DoNothing>>, <<AskHarm(carley, None)>> }

engine_vars == <<world_vars, pipeline_vars, history_vars, round_vars>>

\* A step of one thread to position `to`.
goto(thread, to) == pc' = [pc EXCEPT ![thread] = to]

\* The clock: now - last_input_time grows while the prompt waits.
Tick ==
    /\ pc.main = "input"
    /\ idle_time < IDLE_SECOND_REMINDER
    /\ idle_time' = idle_time + 1
    /\ UNCHANGED <<engine_vars, idle_flags, busy_event, elapsed, user, game_flag, pc>>

\* get_story, called by the main thread.
get_story ==
    \/ \E player_actions \in LoopInputs, rnd \in 0..MaxRnd : PlayerTurn(player_actions, rnd)
    \/ Conversation

\* main: the input loop.
main ==
    \/ /\ pc.main = "input"
       /\ \E line \in Lines :
             IF line = "eof"
             THEN /\ idle_flags' = [idle_flags EXCEPT !.running = FALSE]
                  /\ goto("main", "done")
                  /\ UNCHANGED user
             ELSE /\ user' = line
                  /\ goto("main", "stamp")
                  /\ UNCHANGED idle_flags
       /\ UNCHANGED <<engine_vars, busy_event, idle_time, elapsed, game_flag>>
    \/ /\ pc.main = "stamp"
       /\ idle_time' = 0
       /\ goto("main", "reset_first")
       /\ UNCHANGED <<engine_vars, idle_flags, busy_event, elapsed, user, game_flag>>
    \/ /\ pc.main = "reset_first"
       /\ idle_flags' = [idle_flags EXCEPT !.first_sent = FALSE]
       /\ goto("main", "reset_second")
       /\ UNCHANGED <<engine_vars, busy_event, idle_time, elapsed, user, game_flag>>
    \/ /\ pc.main = "reset_second"
       /\ idle_flags' = [idle_flags EXCEPT !.second_sent = FALSE]
       /\ goto("main", "quit_test")
       /\ UNCHANGED <<engine_vars, busy_event, idle_time, elapsed, user, game_flag>>
    \/ /\ pc.main = "quit_test"
       /\ IF user = "quit"
          THEN /\ idle_flags' = [idle_flags EXCEPT !.running = FALSE]
               /\ goto("main", "done")
          ELSE /\ goto("main", "set_busy")
               /\ UNCHANGED idle_flags
       /\ UNCHANGED <<engine_vars, busy_event, idle_time, elapsed, user, game_flag>>
    \/ /\ pc.main = "set_busy"
       /\ busy_event' = TRUE
       /\ goto("main", "call")
       /\ UNCHANGED <<engine_vars, idle_flags, idle_time, elapsed, user, game_flag>>
    \/ /\ pc.main = "call"
       /\ goto("main", "in_get_story")
       /\ UNCHANGED <<engine_vars, idle_flags, busy_event, idle_time, elapsed, user, game_flag>>
    \/ /\ pc.main = "in_get_story"
       /\ get_story
       /\ game_flag' = game_over'
       /\ goto("main", "clear_busy")
       /\ UNCHANGED <<idle_flags, busy_event, idle_time, elapsed, user>>
    \/ /\ pc.main = "clear_busy"
       /\ busy_event' = FALSE
       /\ goto("main", "flag_test")
       /\ UNCHANGED <<engine_vars, idle_flags, idle_time, elapsed, user, game_flag>>
    \/ /\ pc.main = "flag_test"
       /\ IF game_flag # 0
          THEN /\ idle_flags' = [idle_flags EXCEPT !.running = FALSE]
               /\ goto("main", "done")
          ELSE /\ goto("main", "input")
               /\ UNCHANGED idle_flags
       /\ UNCHANGED <<engine_vars, busy_event, idle_time, elapsed, user, game_flag>>

\* idle_watcher, one reminder: the flag is set, AIconversation is called,
\* the flag is cleared and the reminder marked as sent.
reminder(sent, at, threshold, then) ==
    \/ /\ pc.watcher = at
       /\ IF ~idle_flags[sent] /\ elapsed >= threshold
          THEN goto("watcher", at \o "_set")
          ELSE goto("watcher", then)
       /\ UNCHANGED <<idle_flags, busy_event>>
    \/ /\ pc.watcher = at \o "_set"
       /\ busy_event' = TRUE
       /\ goto("watcher", at \o "_call")
       /\ UNCHANGED idle_flags
    \/ /\ pc.watcher = at \o "_call"
       /\ goto("watcher", at \o "_in_AIconversation")
       /\ UNCHANGED <<idle_flags, busy_event>>
    \/ /\ pc.watcher = at \o "_in_AIconversation"
       /\ goto("watcher", at \o "_clear")
       /\ UNCHANGED <<idle_flags, busy_event>>
    \/ /\ pc.watcher = at \o "_clear"
       /\ busy_event' = FALSE
       /\ goto("watcher", at \o "_mark")
       /\ UNCHANGED idle_flags
    \/ /\ pc.watcher = at \o "_mark"
       /\ idle_flags' = [idle_flags EXCEPT ![sent] = TRUE]
       /\ goto("watcher", then)
       /\ UNCHANGED busy_event

\* idle_watcher: the loop of the watcher thread.
idle_watcher ==
    \/ /\ pc.watcher = "loop"
       /\ goto("watcher", IF idle_flags.running THEN "busy_test" ELSE "done")
       /\ UNCHANGED <<engine_vars, idle_flags, busy_event, idle_time, elapsed, user, game_flag>>
    \/ /\ pc.watcher = "busy_test"
       /\ goto("watcher", IF busy_event THEN "loop" ELSE "read_clock")
       /\ UNCHANGED <<engine_vars, idle_flags, busy_event, idle_time, elapsed, user, game_flag>>
    \/ /\ pc.watcher = "read_clock"
       /\ elapsed' = idle_time
       /\ goto("watcher", "first")
       /\ UNCHANGED <<engine_vars, idle_flags, busy_event, idle_time, user, game_flag>>
    \/ /\ reminder("first_sent", "first", IDLE_FIRST_REMINDER, "second")
       /\ UNCHANGED <<engine_vars, idle_time, elapsed, user, game_flag>>
    \/ /\ reminder("second_sent", "second", IDLE_SECOND_REMINDER, "sleep")
       /\ UNCHANGED <<engine_vars, idle_time, elapsed, user, game_flag>>
    \/ /\ pc.watcher = "sleep"
       /\ goto("watcher", "loop")
       /\ UNCHANGED <<engine_vars, idle_flags, busy_event, idle_time, elapsed, user, game_flag>>

NextLoop ==
    \/ main
    \/ idle_watcher
    \/ Tick

SpecLoop == Init /\ [][NextLoop]_vars

\* The watcher thread is inside AIconversation.
InAIconversation == pc.watcher \in {"first_in_AIconversation", "second_in_AIconversation"}

\* C22: the idle watcher never starts an AIconversation call while a
\* get_story call of the main loop is in flight.
WatcherSuppressed ==
    [][(~InAIconversation /\ InAIconversation') => pc.main # "in_get_story"]_vars

(***************************************************************************)
(* Further properties of the turn pipeline: the pending states and the     *)
(* snapshot of an executed turn.                                           *)
(***************************************************************************)
\* The pending states that are set: an undo waiting for its confirmation,
\* a list waiting for its correction, a risky action waiting for its
\* confirmation.
PendingStates ==
    {k \in {"undo", "correction", "confirmation"} :
        \/ k = "undo" /\ pending_undo_confirm_choice # 0
        \/ k = "correction" /\ pending_correction_actions # <<>>
        \/ k = "confirmation" /\ pending_confirmation_action # <<>>}

\* C26: at the end of every call of get_story at most one of the three
\* pending states is set.
OnePending == Cardinality(PendingStates) <= 1

\* A confirmed risky action was rejected by the validation: the correction
\* phase is open and nothing else is pending.
OnePendingWitness == last.handler = "confirm" /\ PendingStates = {"correction"}

\* C27: after every call of get_story that executed at least one action -
\* on the normal path, after a confirmation or through a correction reply -
\* the top of the undo stack equals the serialization of the world.
TopSnapshotCurrent ==
    last.ran =>
        /\ undo_snapshots # <<>>
        /\ SameState(undo_snapshots[Len(undo_snapshots)], serialize_current_state(W))

(***************************************************************************)
(* Further properties of the events.                                       *)
(***************************************************************************)
\* The participants of an event that are alive.
AliveIn(e) == {p \in events[e].participants : is_alive[p]}

\* An active fight whose alive participants are fewer than two or stand in
\* more than one area.
StaleFight(e) ==
    /\ events[e].kind = "Fight"
    /\ events[e].is_active
    /\ \/ Cardinality(AliveIn(e)) < 2
       \/ Cardinality({current_area[p] : p \in AliveIn(e)}) > 1

\* C28: after check_for_event_triggers_after_action has returned, which
\* ends every executed action, no fight that is still active has fewer
\* than two alive participants or alive participants in more than one
\* area.
NoStaleFight == last.ran => \A e \in DOMAIN events : ~StaleFight(e)

\* An alive character other than the actor and the player who is hostile:
\* a friendship of 1 or less in either direction, or the hostile flag (set
\* together with the state 'attack').
HostileNpc(c, actor) ==
    /\ c # actor
    /\ ~Controllable(c)
    /\ is_alive[c]
    /\ \/ friendships[c][actor] <= 1
       \/ friendships[actor][c] <= 1
       \/ HostileFlag(c)

\* The area holds an active fight.
FightIn(area) ==
    \E e \in DOMAIN events :
        events[e].kind = "Fight" /\ events[e].is_active /\ events[e].location = area

\* The world a later round starts from when Kenny's harm step against Lee
\* was the one step of the round before it: the step was executed and
\* followed by check_for_event_triggers_after_action, and the plans were
\* cleared at the end of the round.
HarmedByKenny ==
    check_for_event_triggers_after_action(
        activate_action(InitialWorld, Harm(player), kenny, 0), kenny)

StopEvent == Act("stop_event", None, None, None, None, None)

\* The steps queued for the round after the harm.
TruceQueue == RoundActors \X {StopEvent, DoNothing}

InitTruce ==
    /\ \E w \in {HarmedByKenny} :
          /\ current_area = w.current_area
          /\ characters = w.characters
          /\ key_items = w.key_items
          /\ inventory = w.inventory
          /\ equipment = w.equipment
          /\ weapon = w.weapon
          /\ party = w.party
          /\ friendships = w.friendships
          /\ health = w.health
          /\ is_alive = w.is_alive
          /\ holder = w.holder
          /\ position = w.position
          /\ is_equipped = w.is_equipped
          /\ known_by = w.known_by
          /\ events = w.events
          /\ active_events = w.active_events
          /\ area_events = w.area_events
          /\ plans = w.plans
    /\ undo_snapshots = <<>>
    /\ pending_confirmation_action = <<>>
    /\ pending_correction_actions = <<>>
    /\ pending_correction_failed_index = -1
    /\ pending_undo_confirm_choice = 0
    /\ pending_undo_confirm_from_index = 0
    /\ last = Idle
    /\ restored = <<>>
    /\ correction_confirmed = FALSE
    /\ turn = 0
    /\ game_over = 0
    /\ pushed_events = <<>>
    /\ completed_action_turns = 0
    /\ suggestions = 0
    /\ round = 1
    /\ phase = "idle"
    /\ engaged_with = [c \in Chars |-> {}]
    /\ processed = {}
    /\ scan = <<>>
    /\ progressed = FALSE
    /\ pass = 0
    /\ attempts = <<>>
    /\ LoopStart

NextTruce ==
    \/ \E q \in TruceQueue : QueueStep(q[1], q[2]) /\ UNCHANGED loop_vars
    \/ BeginRound /\ UNCHANGED loop_vars
    \/ \E rnd \in 0..MaxRnd : ScanStep(rnd) /\ UNCHANGED loop_vars
    \/ NextPass /\ UNCHANGED loop_vars
    \/ EndRound /\ UNCHANGED loop_vars

SpecTruce == InitTruce /\ [][NextTruce]_vars

\* C29: when a round has executed the step of an alive actor, every alive
\* hostile NPC in the actor's area means that the area holds an active
\* fight.
HostileMeansFight ==
    [][(Len(attempts') > Len(attempts) /\ Logged.outcome = "executed") =>
          \A actor \in {Logged.actor} :
              (is_alive[actor] =>
                  \A c \in Range(characters[current_area[actor]]) :
                      HostileNpc(c, actor) => FightIn(current_area[actor]))']_vars

\* The turn that ends in the next state was executed and its last action
\* was a use_item of the player, who therefore stands after the turn where
\* the item was used.
PlayerUsedItem ==
    /\ last'.ran
    /\ last'.actions # <<>>
    /\ last'.actions[Len(last'.actions)].action = "use_item"

\* The event is neither located nor registered in the area.
Elsewhere(e, area) == events[e].location # area /\ ~InSeq(e, area_events[area])

\* C30: a use_item of the player changes no blockade outside the player's
\* area: a blockade that is neither located nor registered where the player
\* uses the item is the same after the turn (so the blockade is resolved
\* only from the Storage Room or the Pharmacy).
UseItemLocal ==
    [][PlayerUsedItem =>
          \A e \in DOMAIN events :
              (events[e].kind = "Blockade" /\ Elsewhere(e, current_area'[player]))
                  => events'[e] = events[e]]_vars

(***************************************************************************)
(* Further properties of the characters.                                   *)
(***************************************************************************)
\* The character is where it was and listed in the areas that listed it.
StaysPut(c) ==
    /\ current_area'[c] = current_area[c]
    /\ \A a \in DOMAIN characters : InSeq(c, characters'[a]) <=> InSeq(c, characters[a])

\* C31: a turn that executes the player's actions leaves every character
\* that was dead before it in its area and in that area's list of
\* characters.
DeadStayPut == [][last'.ran => \A c \in Chars : ~is_alive[c] => StaysPut(c)]_vars

\* The items in the character's equipment slots.
Worn(c) == {equipment[c][s] : s \in Slots} \ {None}

\* C32: every item in an equipment slot of a character is in that
\* character's inventory and is marked equipped, and every item marked
\* equipped is in a slot of the character that holds it.
EquipmentConsistent ==
    /\ \A c \in Chars : \A it \in Worn(c) : InSeq(it, inventory[c]) /\ is_equipped[it]
    /\ \A it \in Items : is_equipped[it] => \E c \in Chars : holder[it] = c /\ it \in Worn(c)

(***************************************************************************)
(* Further properties of the fights.                                       *)
(***************************************************************************)
\* The active fights located in the area.
ActiveFights(area) ==
    {e \in DOMAIN events :
        events[e].kind = "Fight" /\ events[e].is_active /\ events[e].location = area}

\* C33: no area holds more than one active fight.
OneFightPerArea == \A area \in Areas : Cardinality(ActiveFights(area)) <= 1

\* The player, who walked into the zombie's fight in the Storage Room, has
\* attacked the zombie there, and the room holds one fight.
OneFightPerAreaWitness ==
    /\ last.ran
    /\ last.actions = <<Harm(zombie3)>>
    /\ current_area[player] = storage_room
    /\ Cardinality(ActiveFights(storage_room)) = 1

\* The character takes part in an active fight.
Fighting(c) ==
    \E e \in DOMAIN events :
        events[e].kind = "Fight" /\ events[e].is_active /\ c \in events[e].participants

\* C34: when a turn has executed the player's stop_event on a fight, the
\* player takes part in no active fight.
StopEndsFighting ==
    [][(Fighting(player) /\ last'.ran /\ last'.actions = <<StopEvent>>) => ~Fighting(player)']_vars

(***************************************************************************)
(* Further properties of the moves.                                        *)
(***************************************************************************)
\* C35: process_move_action relocates the acting character only: whoever
\* moves and wherever to, every other character is afterwards in the area
\* where it was (the party members are to follow by their queued steps).
MoveRelocatesActorOnly ==
    \A actor \in Chars : \A area \in Areas :
        \E w2 \in {process_move_action(W, area, actor)} :
            \A c \in Chars \ {actor} : w2.current_area[c] = current_area[c]

(***************************************************************************)
(* Further properties of the queued steps.                                 *)
(***************************************************************************)
\* C36: when get_story has returned and the next input is awaited, no step
\* that a cascade queued during the turn is still waiting in the
\* TurnHandler.
CascadeStepsAttempted ==
    \A c \in Chars :
        plans[c].origin \in {"group-join", "group-move"} => ~has_next(plans[c])

(***************************************************************************)
(* Further properties of the friendships: the witnesses of an attack.      *)
(***************************************************************************)
\* round(n / d) of Python: to the nearest integer, a half to the even one.
PyRound(n, d) ==
    LET q == n \div d
        r == n % d
    IN  IF 2 * r < d THEN q
        ELSE IF 2 * r > d THEN q + 1
        ELSE IF q % 2 = 0 THEN q ELSE q + 1

\* 1 + int(round(4 * severity)) at the severity 1.0 of an attack
base_from_sev == 5

kill_bonus == 3

DislikeBelow == 2

\* The penalty Character.witness_violence computes for a witness of an
\* attack on the victim: the affinity is the witness's friendship toward the
\* victim in tenths.
witness_penalty(w, witness, victim, killed) ==
    LET vic_friend == friendship_with(w, witness, victim)
        tenths == IF vic_friend < 0 THEN 0 ELSE IF vic_friend > 10 THEN 10 ELSE vic_friend
        penalty == PyRound(base_from_sev * tenths, 10)
                     + PyRound((IF killed THEN kill_bonus ELSE 0) * tenths, 10)
        dampened == IF penalty - DislikeBelow < 0 THEN 0 ELSE penalty - DislikeBelow
    IN  IF vic_friend < DislikeBelow THEN dampened ELSE penalty

\* The friendship left after a penalty, which stops at 0.
Lowered(friendship, penalty) == IF friendship - penalty < 0 THEN 0 ELSE friendship - penalty

\* The alive characters other than attacker and victim in the attacker's area.
Witnesses(attacker, victim) ==
    {c \in Range(characters[current_area[attacker]]) \ {attacker, victim} : is_alive[c]}

\* C37: when a turn has executed the player's attack on Kenny, alive and in
\* the player's area, every witness whose penalty is positive has its
\* friendship toward the player lowered by the penalty.
WitnessesPenalised ==
    [][(/\ last'.ran
        /\ last'.actions = <<Harm(kenny)>>
        /\ is_alive[player]
        /\ is_alive[kenny]
        /\ current_area[kenny] = current_area[player])
       => \A c \in Witnesses(player, kenny) :
             \A penalty \in {witness_penalty(W, c, kenny, ~is_alive'[kenny])} :
                 penalty > 0 => friendships'[c][player] = Lowered(friendships[c][player], penalty)]_vars

(***************************************************************************)
(* Termination of a round.  run_one_round is one sequential loop: once it  *)
(* has been called, its next step is taken whenever there is one.          *)
(***************************************************************************)
\* The for loop goes on to its next actor.  While actors are left to scan
\* this is the step ScanStep takes, whatever becomes of the actor's step.
ForLoopAdvances ==
    /\ phase = "scan"
    /\ scan # <<>>
    /\ scan' = Tail(scan)

SpecRoundFair ==
    /\ SpecRound
    /\ WF_scan(ForLoopAdvances)
    /\ WF_vars(NextPass /\ UNCHANGED loop_vars)
    /\ WF_vars(EndRound /\ UNCHANGED loop_vars)

\* C38: a round that has started ends, whatever steps were queued and
\* whatever steps its executed steps queue.
RoundTerminates == (phase = "scan") ~> (phase = "idle")

\* A round is over in which a step queued by a group-join cascade was
\* attempted.
RoundTerminatesWitness ==
    /\ phase = "idle"
    /\ round > 1
    /\ \E i \in DOMAIN attempts : attempts[i].origin = "group-join"

(***************************************************************************)
(* The game can be won.  The player reaches the Pharmacy in three turns    *)
(* of validated actions (the Fire Axe fetched, the blockade resolved); the *)
(* end of the game starts there.                                           *)
(***************************************************************************)
\* The player, alive and carrying the First Aid Kit, stands with the living
\* Larry, and the game goes on with nothing pending.
ReadyToHeal ==
    /\ NoPending
    /\ game_over = 0
    /\ is_alive[player]
    /\ is_alive[larry]
    /\ InSeq(first_aid_kit, inventory[player])
    /\ current_area[player] = current_area[larry]

\* C39: the game is winnable: whenever the player has brought the First Aid
\* Kit to Larry, the use of the kit on Larry passes the validation and the
\* turn that executes it ends with the win flag.
Winnable ==
    ReadyToHeal =>
        /\ validate_action(W, UseItem(first_aid_kit, larry), player) = None
        /\ checkEnd(Played(W, <<UseItem(first_aid_kit, larry)>>)) = 2

\* The game is won: the player, back from the Pharmacy, has used the First
\* Aid Kit on Larry in the Main Store and get_story has returned the win
\* flag.
WinnableWitness ==
    /\ game_over = 2
    /\ last.ran
    /\ last.actions = <<UseItem(first_aid_kit, larry)>>
    /\ current_area[player] = main_store
    /\ ~events[1].is_active

(***************************************************************************)
(* The counter of the completed turns and the suggestions.                 *)
(***************************************************************************)
\* C40: a turn of get_story that executes the player's actions and reaches
\* the story generation raises the counter of completed turns by one, and
\* when the counter is then even, one suggestion is requested from the
\* Conversation responder.
SuggestionEverySecondTurn ==
    [][(last'.ran /\ last'.handler = "turn") =>
          /\ completed_action_turns' = completed_action_turns + 1
          /\ completed_action_turns' % 2 = 0 => suggestions' = suggestions + 1]_vars

=============================================================================
